---- MODULE Spec2Model ----
(***************************************************************************)
(* Invoice and collection reconciliation engine of the windows-app Tauri   *)
(* backend (src-tauri/src/commands.rs, database.rs).                       *)
(*                                                                         *)
(* The local SQLite store is modelled by the variables agent_settings,     *)
(* invoices, collections and client_balances.  The synchronous commands    *)
(* run one at a time on the main thread; one that holds the connection     *)
(* mutex from start to end is one action, record_collection_group, which   *)
(* takes it twice, is two.  The asynchronous commands (send_invoice,       *)
(* send_collection, sync_client_balances and the batch callers) run as     *)
(* tasks and release the mutex around each network call; each stretch of   *)
(* code executed under one lock acquisition, and each network call, is one *)
(* action of a task.  For the atomicity of the number allocation the       *)
(* commands create_invoice and record_collection are also followed         *)
(* statement by statement under an explicit mutex (conn_lock).             *)
(* The remote ERP (WME) is the environment: remote_rest                    *)
(* is its authoritative balance and accepted counts what its gateway has   *)
(* accepted.                                                               *)
(*                                                                         *)
(* Money is counted in units of 0.0001 RON (the smallest tolerance the     *)
(* code compares with), so 1 RON = 10000 units.                            *)
(***************************************************************************)
EXTENDS Integers, Sequences, FiniteSets, TLC

VARIABLES
    agent_settings,     \* the single row (id = 1) of table agent_settings
    invoices,           \* table invoices: invoice id -> row
    next_invoice_id,    \* source of fresh invoice ids (Uuid::new_v4)
    issued,             \* history: numbers given out by successful create_invoice calls
    last_issued,        \* history: number of the latest successful create_invoice since the
                        \* settings were last saved (None when there is none)
    ret,                \* outcome of the latest command that returned one
    main_pc,            \* main thread: position inside a synchronous command that
                        \* takes the lock more than once
    main_req,           \* main thread: the request of that command
    pc,                 \* task -> position inside its asynchronous command
    loc,                \* task -> local variables of its asynchronous command
    collections,        \* table collections: row id -> row
    next_uuid,          \* source of fresh collection row and receipt group ids
    client_balances,    \* table client_balances: remote document -> rest at the last pull
    remote_rest,        \* remote ledger: remote document -> authoritative rest
    accepted,           \* remote ledger: receipt group id -> submissions the gateway accepted
    clock,              \* wall clock, in seconds
    conn_lock           \* holder of the connection mutex (Database.conn); 0 when free

inv_vars == <<invoices, next_invoice_id, issued, last_issued>>
coll_vars == <<collections, next_uuid, client_balances>>
remote_vars == <<remote_rest, accepted>>
main_vars == <<main_pc, main_req>>
async_vars == <<pc, loc>>

vars == <<agent_settings, inv_vars, ret, main_vars, async_vars, coll_vars,
          remote_vars, clock, conn_lock>>

---------------------------------------------------------------------------
\* Bounds of the model.

MaxInvoices == 2        \* invoices created during one run
MaxNumber == 3          \* largest number an operator types into the settings form
NumTasks == 2           \* concurrently running asynchronous commands
MaxCollectionIds == 3   \* collection rows and receipt groups created during one run
MaxReceipt == 4         \* largest receipt counter value from which a number is drawn
MaxAccept == 2          \* submissions of one receipt group the gateway gets to accept
MaxClock == 1           \* seconds that pass during one run

\* Program constants.

DefaultNumberStart == 1         \* column default of *_number_start and *_number_current
DefaultNumberEnd == 99999       \* column default of *_number_end

Tasks == 1..NumTasks
InvoiceIds == 1..MaxInvoices
GroupIds == 1..MaxCollectionIds
CollectionTasks == {1}  \* the task that runs the collection commands
EmptyTable == [i \in {} |-> {}]

\* Option<T>: None is the empty set, Some(v) the singleton.
None == {}
Some(v) == {v}
IsSome(o) == o # {}
Unwrap(o) == CHOOSE v \in o : TRUE
\* SQL COALESCE(o, d) and Rust unwrap_or(d)
Coalesce(o, d) == IF o = {} THEN d ELSE Unwrap(o)

OptNumbers == {None} \cup {Some(n) : n \in 1..MaxNumber}

---------------------------------------------------------------------------
\* Table agent_settings.

\* No row with id = 1 yet (fresh database).  The field values are never read
\* while present is FALSE.
NoSettingsRow ==
    [present |-> FALSE, send_fields |-> FALSE, carnet_series |-> None,
     invoice_number_start |-> None, invoice_number_end |-> None,
     invoice_number_current |-> None,
     receipt_number_start |-> None, receipt_number_end |-> None,
     receipt_number_current |-> None]

\* A row inserted without naming the numbering columns takes their DEFAULTs.
DefaultSettingsRow ==
    [present |-> TRUE, send_fields |-> FALSE, carnet_series |-> None,
     invoice_number_start |-> Some(DefaultNumberStart),
     invoice_number_end |-> Some(DefaultNumberEnd),
     invoice_number_current |-> Some(DefaultNumberStart),
     receipt_number_start |-> Some(DefaultNumberStart),
     receipt_number_end |-> Some(DefaultNumberEnd),
     receipt_number_current |-> Some(DefaultNumberStart)]

\* "Smart logic" of save_agent_settings for a counter's current value.
FinalCurrent(start, current) ==
    IF IsSome(start) /\ IsSome(current) /\ Unwrap(current) < Unwrap(start) THEN start
    ELSE IF IsSome(start) /\ ~IsSome(current) THEN start
    ELSE current

\* The row save_agent_settings writes (INSERT ... ON CONFLICT DO UPDATE of every
\* column).  send_fields stands for the text fields send_invoice requires
\* (agent_name, simbol_carnet_livr, cod_carnet, cod_carnet_livr,
\* simbol_gestiune_livrare, numeric marca_agent).
SavedSettingsRow(fields, series, istart, iend, icur, rstart, rend, rcur) ==
    [present |-> TRUE, send_fields |-> fields, carnet_series |-> series,
     invoice_number_start |-> istart, invoice_number_end |-> iend,
     invoice_number_current |-> FinalCurrent(istart, icur),
     receipt_number_start |-> rstart, receipt_number_end |-> rend,
     receipt_number_current |-> FinalCurrent(rstart, rcur)]

\* get_agent_settings: the row, or the built-in defaults when there is none.
GetAgentSettings(s) ==
    IF s.present THEN s
    ELSE [DefaultSettingsRow EXCEPT !.present = FALSE]

---------------------------------------------------------------------------
\* create_invoice: number allocation.

\* SELECT COALESCE(invoice_number_current, 1), COALESCE(invoice_number_end, 99999)
\* ... .unwrap_or((1, 99999))
ReadInvoiceNumberIgnoringEnd(s) ==
    IF s.present
    THEN [number |-> Coalesce(s.invoice_number_current, DefaultNumberStart),
          end |-> DefaultNumberEnd]
    ELSE [number |-> DefaultNumberStart, end |-> DefaultNumberEnd]
ReadInvoiceNumber(s) ==
    IF s.present
    THEN [number |-> Coalesce(s.invoice_number_current, DefaultNumberStart),
          end |-> Coalesce(s.invoice_number_end, DefaultNumberEnd)]
    ELSE [number |-> DefaultNumberStart, end |-> DefaultNumberEnd]

\* INSERT INTO agent_settings (id, invoice_number_current) VALUES (1, n + 1)
\* ON CONFLICT(id) DO UPDATE SET invoice_number_current = invoice_number_current + 1
\* (in SQL, NULL + 1 is NULL)
BumpInvoiceNumber(s, n) ==
    IF s.present
    THEN [s EXCEPT !.invoice_number_current =
                      IF IsSome(@) THEN Some(Unwrap(@) + 1) ELSE None]
    ELSE [DefaultSettingsRow EXCEPT !.invoice_number_current = Some(n + 1)]

\* invoices.invoice_number is UNIQUE: the INSERT fails on a number a row holds.
NumberTaken(n) == \E i \in DOMAIN invoices : invoices[i].invoice_number = n

\* products.procent_tva of the products sold
ProcentTva == 21

\* invoices.total_amount: the sum of the item totals, without VAT
NetAmount(gross) == (gross * 100) \div (100 + ProcentTva)

NewInvoiceRow(n, gross) ==
    [invoice_number |-> n, status |-> "pending", gross |-> gross,
     total_amount |-> NetAmount(gross),
     sent_at |-> FALSE, error_message |-> "null"]

---------------------------------------------------------------------------
\* Synchronous invoice commands (each runs under one lock acquisition).

\* What an error message says of an invoice: its series and number (None is
\* printed as the empty string).
About(serie, numar) == [serie |-> serie, numar |-> numar]
NoAbout == About(None, None)

\* The outcome of a command: Ok or Err, the error, and for an error message
\* that names an invoice or an amount, the invoice and the amount.
OutcomeAbout(op, ok, err, about, rest) ==
    [op |-> op, ok |-> ok, err |-> err, about |-> about, rest |-> rest]
Outcome(op, ok, err) == OutcomeAbout(op, ok, err, NoAbout, 0)

Returned(op, ok, err) == ret' = Outcome(op, ok, err)

\* Commands without the async keyword run one at a time on the main thread.
MainIdle == main_pc = "idle"

\* create_invoice.  The request is taken to name an existing partner, location
\* and products (the catalog is a collaborator); gross is the invoice total with
\* VAT that the item rows add up to.
CreateInvoice(gross) ==
    LET r == ReadInvoiceNumber(agent_settings) IN
    /\ MainIdle
    /\ next_invoice_id <= MaxInvoices
    /\ IF r.number > r.end
       THEN /\ Returned("create_invoice", FALSE, "range")
            /\ UNCHANGED <<agent_settings, invoices, next_invoice_id, issued, last_issued>>
       ELSE IF NumberTaken(r.number)
       THEN /\ Returned("create_invoice", FALSE, "unique")
            /\ UNCHANGED <<agent_settings, invoices, next_invoice_id, issued, last_issued>>
       ELSE /\ invoices' = [i \in DOMAIN invoices \cup {next_invoice_id} |->
                               IF i = next_invoice_id
                               THEN NewInvoiceRow(r.number, gross)
                               ELSE invoices[i]]
            /\ agent_settings' = BumpInvoiceNumber(agent_settings, r.number)
            /\ next_invoice_id' = next_invoice_id + 1
            /\ issued' = Append(issued, r.number)
            /\ last_issued' = Some(r.number)
            /\ Returned("create_invoice", TRUE, "none")
    /\ UNCHANGED <<main_vars, async_vars, coll_vars, remote_vars, clock, conn_lock>>

\* delete_invoice: the rows go whatever the status is.
DeleteInvoice(i) ==
    /\ MainIdle
    /\ invoices' = [j \in DOMAIN invoices \ {i} |-> invoices[j]]
    /\ Returned("delete_invoice", TRUE, "none")
    /\ UNCHANGED <<agent_settings, next_invoice_id, issued, last_issued>>
    /\ UNCHANGED <<main_vars, async_vars, coll_vars, remote_vars, clock, conn_lock>>

\* save_agent_settings
SaveAgentSettings(fields, series, istart, iend, icur, rstart, rend, rcur) ==
    /\ MainIdle
    /\ agent_settings' =
           SavedSettingsRow(fields, series, istart, iend, icur, rstart, rend, rcur)
    /\ last_issued' = None
    /\ Returned("save_agent_settings", TRUE, "none")
    /\ UNCHANGED <<invoices, next_invoice_id, issued>>
    /\ UNCHANGED <<main_vars, async_vars, coll_vars, remote_vars, clock, conn_lock>>

\* UPDATE invoices SET status = .., error_message = .. WHERE id = i
\* (no condition on the current status; no row, no effect).
SetInvoiceStatus(tbl, i, status, err) ==
    [j \in DOMAIN tbl |->
        IF j = i THEN [tbl[j] EXCEPT !.status = status, !.error_message = err]
        ELSE tbl[j]]

\* cancel_invoice_sending: only an invoice that is being sent can be cancelled
CancellableUnlessSent(status) == status # "sent"
Cancellable(status) == status = "sending"

\* cancel_invoice_sending: the status is read and written under one lock.
CancelInvoiceSending(i) ==
    /\ MainIdle
    /\ IF i \notin DOMAIN invoices
       THEN /\ Returned("cancel_invoice_sending", FALSE, "not_found")
            /\ UNCHANGED invoices
       ELSE IF ~Cancellable(invoices[i].status)
       THEN /\ Returned("cancel_invoice_sending", FALSE, "not_sending")
            /\ UNCHANGED invoices
       ELSE /\ invoices' = SetInvoiceStatus(invoices, i, "pending", "cancelled")
            /\ Returned("cancel_invoice_sending", TRUE, "none")
    /\ UNCHANGED <<agent_settings, next_invoice_id, issued, last_issued>>
    /\ UNCHANGED <<main_vars, async_vars, coll_vars, remote_vars, clock, conn_lock>>

---------------------------------------------------------------------------
\* send_invoice and its batch callers.

IdleLoc ==
    [id |-> 0, queue |-> <<>>, cfg_ok |-> FALSE, reply |-> "none",
     rows |-> {}, total |-> 0, snapshot |-> EmptyTable,
     number |-> [kind |-> "none", n |-> 0], req |-> <<>>]

\* What the gateway's answer to an invoice submission looks like to send_invoice:
\*   doc    Ok(response) whose first imported document has a non-empty number
\*   nodoc  Ok(response) with no imported document, or one without a number
\*   error  Err(..): no connection, timeout, error status, unreadable body
InvoiceReplies == {"doc", "nodoc", "error"}

\* The validations of send_invoice pass when every required setting is there.
\* (The partner's cod_intern, also required, comes with the catalog and is taken
\* to be set.)
RequiredSettingsOk(s) == s.send_fields /\ IsSome(s.carnet_series)

\* Ascending list of the members of a set of ids (ids grow with created_at).
RECURSIVE SortedSeq(_)
SortedSeq(S) ==
    IF S = {} THEN <<>>
    ELSE LET m == CHOOSE x \in S : \A y \in S : x <= y
         IN <<m>> \o SortedSeq(S \ {m})

\* A batch caller's loop: where a task goes when one send_invoice call returns.
PcAfterSend(l) == IF l.queue = <<>> THEN "idle" ELSE "si_load"
LocAfterSend(l) ==
    IF l.queue = <<>> THEN IdleLoc
    ELSE [IdleLoc EXCEPT !.id = Head(l.queue), !.queue = Tail(l.queue)]

ReturnFromSend(t) ==
    /\ pc' = [pc EXCEPT ![t] = PcAfterSend(loc[t])]
    /\ loc' = [loc EXCEPT ![t] = LocAfterSend(loc[t])]

\* What a step of send_invoice that writes no row leaves alone.
store_vars == <<agent_settings, inv_vars, ret, main_vars, coll_vars, remote_vars, clock, conn_lock>>
\* What a step of send_invoice that writes the invoices table leaves alone.
si_frame == <<agent_settings, next_invoice_id, issued, last_issued, ret, main_vars,
              coll_vars, remote_vars, clock, conn_lock>>

\* First block of send_invoice: load the invoice, its partner and its items.
LoadInvoice(t, l) ==
    /\ IF l.id \in DOMAIN invoices
       THEN /\ pc' = [pc EXCEPT ![t] = "si_settings"]
            /\ loc' = [loc EXCEPT ![t] = l]
       ELSE /\ pc' = [pc EXCEPT ![t] = PcAfterSend(l)]
            /\ loc' = [loc EXCEPT ![t] = LocAfterSend(l)]
    /\ UNCHANGED store_vars

\* send_invoice called as a command
SendInvoice(t, i) ==
    /\ pc[t] = "idle"
    /\ LoadInvoice(t, [IdleLoc EXCEPT !.id = i])

\* send_invoice called from a batch loop
SI_Load(t) ==
    /\ pc[t] = "si_load"
    /\ LoadInvoice(t, loc[t])

\* Start of a batch: the ids selected by the caller's query, then the first call.
StartBatch(t, ids) ==
    /\ pc[t] = "idle"
    /\ IF ids = {}
       THEN UNCHANGED async_vars
       ELSE LET q == SortedSeq(ids) IN
            /\ pc' = [pc EXCEPT ![t] = "si_load"]
            /\ loc' = [loc EXCEPT ![t] =
                          [IdleLoc EXCEPT !.id = Head(q), !.queue = Tail(q)]]
    /\ UNCHANGED store_vars

\* send_all_pending_invoices: WHERE status = 'pending' OR status = 'failed'
SendAllPendingInvoices(t) ==
    StartBatch(t, {i \in DOMAIN invoices : invoices[i].status \in {"pending", "failed"}})

\* sync_all_data, after the catalog refresh: WHERE status = 'pending'
SyncAllDataAutoSend(t) ==
    StartBatch(t, {i \in DOMAIN invoices : invoices[i].status = "pending"})

\* get_agent_settings(db.clone())
SI_Settings(t) ==
    /\ pc[t] = "si_settings"
    /\ pc' = [pc EXCEPT ![t] = "si_validate"]
    /\ loc' = [loc EXCEPT ![t].cfg_ok = RequiredSettingsOk(GetAgentSettings(agent_settings))]
    /\ UNCHANGED store_vars

\* A failed validation: status 'pending' with the message, then Err.
SI_ValidateFail(t) ==
    /\ pc[t] = "si_validate"
    /\ ~loc[t].cfg_ok
    /\ invoices' = SetInvoiceStatus(invoices, loc[t].id, "pending", "config")
    /\ ReturnFromSend(t)
    /\ UNCHANGED si_frame

\* The status write that precedes the network call.
MarkSending(tbl, i) ==
    [j \in DOMAIN tbl |-> IF j = i THEN [tbl[j] EXCEPT !.status = "sending"] ELSE tbl[j]]

\* "After validations, mark as sending"
SI_MarkSending(t) ==
    /\ pc[t] = "si_validate"
    /\ loc[t].cfg_ok
    /\ invoices' = MarkSending(invoices, loc[t].id)
    /\ pc' = [pc EXCEPT ![t] = "si_request"]
    /\ UNCHANGED <<si_frame, loc>>

\* client.send_invoice_to_wme(wme_request): the request leaves
SI_Submit(t) ==
    /\ pc[t] = "si_request"
    /\ pc' = [pc EXCEPT ![t] = "si_wait"]
    /\ UNCHANGED <<store_vars, loc>>

\* Variant: a client that cannot be built makes send_invoice return at once.
SI_NoClientReturns(t) ==
    /\ pc[t] = "si_request"
    /\ ReturnFromSend(t)
    /\ UNCHANGED store_vars

\* ApiClient::from_default() fails: Err without any request
SI_NoClient(t) ==
    /\ pc[t] = "si_request"
    /\ pc' = [pc EXCEPT ![t] = "si_persist"]
    /\ loc' = [loc EXCEPT ![t].reply = "error"]
    /\ UNCHANGED store_vars

\* .await returns
SI_Reply(t, r) ==
    /\ pc[t] = "si_wait"
    /\ pc' = [pc EXCEPT ![t] = "si_persist"]
    /\ loc' = [loc EXCEPT ![t].reply = r]
    /\ UNCHANGED store_vars

\* Ok(response) with a first element in documente_importate
FirstDocument(r) == r \in {"doc", "unnumbered"}

\* Variant: any imported document counts as created.
NumberedAlways(r) == TRUE

\* doc.numar.is_some() && !doc.numar.as_ref().unwrap().is_empty()
Numbered(r) == r = "doc"

\* The row written for each kind of reply.
PersistInvoiceReply(tbl, i, r) ==
    [j \in DOMAIN tbl |->
        IF j # i THEN tbl[j]
        ELSE IF FirstDocument(r) /\ Numbered(r)
        THEN [tbl[j] EXCEPT !.status = "sent", !.sent_at = TRUE, !.error_message = "doc_info"]
        ELSE IF FirstDocument(r)
        THEN [tbl[j] EXCEPT !.status = "pending", !.error_message = "not_created"]
        ELSE IF r = "nodoc"
        THEN [tbl[j] EXCEPT !.status = "pending", !.error_message = "no_document"]
        ELSE [tbl[j] EXCEPT !.status = "pending", !.error_message = "offline"]]

\* "Update based on result and return the invoice"
SI_Persist(t) ==
    /\ pc[t] = "si_persist"
    /\ invoices' = PersistInvoiceReply(invoices, loc[t].id, loc[t].reply)
    /\ ReturnFromSend(t)
    /\ UNCHANGED si_frame

\* Submissions of invoice i that are on the wire.
InFlight(i) == {t \in Tasks : pc[t] = "si_wait" /\ loc[t].id = i}

---------------------------------------------------------------------------
\* Collections: invoice references, the remote ledger, the balance views and
\* the receipt numbering.  Amounts are in units of 0.0001 RON.

EPSILON_ALLOCATION == 1       \* 0.0001 RON, record_collection_group
EPSILON == 100                \* 0.01 RON, record_collection_from_invoice
MIN_REST == 100               \* 0.01 RON, provisional lines and the balance check
DUPLICATE_BUFFER == 5000      \* 0.5 RON, the balance check of send_collection

\* An invoice reference as a collection row or a balance line carries it.
Ref(s, n, c) == [serie |-> s, numar |-> n, cod_document |-> c]

\* The partner's documents in the remote ledger: the same number in two series.
DocX == Ref(Some("A"), Some(7), Some(101))
DocZ == Ref(Some("B"), Some(7), Some(102))
RemoteDocs == {DocX, DocZ}
\* A document the ledger lists without a series (serie is NULL).
DocN == Ref(None, Some(8), Some(103))
LedgerDocs == RemoteDocs \cup {DocN}
InitialRest == [d \in LedgerDocs |-> IF d = DocX THEN 1000000 ELSE 400000]

NoClamp(x) == x
Max0(x) == IF x > 0 THEN x ELSE 0

\* SUM over the members S of the domain of f
RECURSIVE SumFn(_, _)
SumFn(f, S) ==
    IF S = {} THEN 0
    ELSE LET x == CHOOSE y \in S : TRUE IN f[x] + SumFn(f, S \ {x})

\* SQL equality: never true of NULL
SqlEq(a, b) == IsSome(a) /\ IsSome(b) /\ a = b

\* INSERT of one row
AddRow(tbl, id, row) ==
    [j \in DOMAIN tbl \cup {id} |-> IF j = id THEN row ELSE tbl[j]]

\* A collection row as the three record_* commands insert it.
NewCollectionRow(gid, rn, ref, valoare) ==
    [receipt_group_id |-> gid, receipt_number |-> rn,
     serie_factura |-> ref.serie, numar_factura |-> ref.numar,
     cod_document |-> ref.cod_document, valoare |-> valoare,
     status |-> "pending", synced_at |-> FALSE, error_message |-> "null"]

\* Rows of a receipt group: COALESCE(receipt_group_id, id) = ?1
GroupRows(tbl, g) == {i \in DOMAIN tbl : tbl[i].receipt_group_id = g}
GroupIdsOf(tbl) == {tbl[i].receipt_group_id : i \in DOMAIN tbl}

\* get_collections: the status of a group, from the statuses of its rows
GroupStatus(tbl, g) ==
    LET st == {tbl[i].status : i \in GroupRows(tbl, g)} IN
    IF "sending" \in st THEN "sending"
    ELSE IF "failed" \in st THEN "failed"
    ELSE IF "pending" \in st THEN "pending"
    ELSE "synced"

CountsWhateverStatus(st) == TRUE
\* status IN ('pending', 'sending', 'synced')
CountsAgainstBalance(st) == st \in {"pending", "sending", "synced"}

\* get_client_balances, subquery c: what the local rows take from a remote line
TotalCollected(tbl, ref) ==
    SumFn([i \in DOMAIN tbl |-> tbl[i].valoare],
          {i \in DOMAIN tbl :
              /\ CountsAgainstBalance(tbl[i].status)
              /\ tbl[i].serie_factura = ref.serie
              /\ tbl[i].numar_factura = ref.numar
              /\ tbl[i].cod_document = ref.cod_document})

\* get_client_balances, subquery c2: what the local rows take from a local invoice
TotalCollectedOfInvoice(tbl, n) ==
    SumFn([i \in DOMAIN tbl |-> tbl[i].valoare],
          {i \in DOMAIN tbl :
              /\ CountsAgainstBalance(tbl[i].status)
              /\ tbl[i].numar_factura = Some(n)
              /\ tbl[i].cod_document = Some(n)})

\* The reference under which a local invoice is collected.
InvoiceRef(s, n) == Ref(Some(Coalesce(s.carnet_series, "FACTURA")), Some(n), Some(n))

\* get_client_balances: the mirrored lines less the local collections, and a
\* provisional line for each local invoice whose number no mirrored line has;
\* only lines with a rest above zero.
GetClientBalances(s, inv, tbl, cb) ==
    LET mirrored == {[ref |-> d, rest |-> Max0(cb[d] - TotalCollected(tbl, d))] :
                        d \in DOMAIN cb}
        shown == {i \in DOMAIN inv :
                     /\ inv[i].status \in {"pending", "sending", "sent", "failed"}
                     /\ ~\E d \in DOMAIN cb : d.numar = Some(inv[i].invoice_number)}
        due(i) == inv[i].gross - TotalCollectedOfInvoice(tbl, inv[i].invoice_number)
        provisional == {[ref |-> InvoiceRef(s, inv[i].invoice_number),
                         rest |-> IF due(i) > MIN_REST THEN due(i) ELSE 0] : i \in shown}
    IN {b \in mirrored \cup provisional : b.rest > 0}

\* generate_receipt_number: the number handed out and the settings row left
\* behind; now is the wall clock.
GenerateReceiptNumber(s, now) ==
    IF ~s.present
    THEN [ok |-> FALSE, err |-> "no_settings", number |-> [kind |-> "none", n |-> 0],
          settings |-> s]
    ELSE IF IsSome(s.receipt_number_current)
    THEN LET val == Unwrap(s.receipt_number_current) IN
         IF IsSome(s.receipt_number_end) /\ val > Unwrap(s.receipt_number_end)
         THEN [ok |-> FALSE, err |-> "limit", number |-> [kind |-> "none", n |-> 0],
               settings |-> s]
         ELSE [ok |-> TRUE, err |-> "none", number |-> [kind |-> "counter", n |-> val],
               settings |-> [s EXCEPT !.receipt_number_current = Some(val + 1)]]
    ELSE [ok |-> TRUE, err |-> "none", number |-> [kind |-> "clock", n |-> now],
          settings |-> s]

\* The existence check of record_collection and record_collection_group.
InProgress(tbl, ref) ==
    \E i \in DOMAIN tbl :
        /\ SqlEq(tbl[i].serie_factura, ref.serie)
        /\ SqlEq(tbl[i].numar_factura, ref.numar)
        /\ SqlEq(tbl[i].cod_document, ref.cod_document)
        /\ tbl[i].status \in {"pending", "sending"}

---------------------------------------------------------------------------
\* The commands that record a collection.

\* What a synchronous collection command leaves alone.
rc_frame == <<inv_vars, async_vars, remote_vars, clock, conn_lock>>

\* The receipt counter stays within the explored range.
ReceiptBelowCap == Coalesce(agent_settings.receipt_number_current, 0) <= MaxReceipt

\* record_collection: one row, which is its own receipt group.
RecordCollection(ref, valoare) ==
    LET g == GenerateReceiptNumber(agent_settings, clock) IN
    /\ MainIdle
    /\ next_uuid <= MaxCollectionIds
    /\ ReceiptBelowCap
    /\ IF ~g.ok
       THEN /\ Returned("record_collection", FALSE, g.err)
            /\ UNCHANGED <<agent_settings, coll_vars>>
       ELSE /\ agent_settings' = g.settings
            /\ IF InProgress(collections, ref)
               THEN /\ Returned("record_collection", FALSE, "in_progress")
                    /\ UNCHANGED coll_vars
               ELSE /\ collections' =
                          AddRow(collections, next_uuid,
                                 NewCollectionRow(next_uuid, g.number, ref, valoare))
                    /\ next_uuid' = next_uuid + 1
                    /\ Returned("record_collection", TRUE, "none")
                    /\ UNCHANGED client_balances
    /\ UNCHANGED <<main_vars, rc_frame>>

\* record_collection_group: the checks made on one allocation against the
\* effective balances
\* ({:.2}): an amount printed with two decimals
Round2(x) == ((x + 50) \div 100) * 100

\* An error of record_collection_group about one allocation, as its message
\* words it.
Failure(err, about, rest) == [err |-> err, about |-> about, rest |-> rest]
NoFailure == Failure("none", NoAbout, 0)

AllocationErrorIgnoringBalance(bal, a) ==
    IF a.valoare <= 0 THEN Failure("not_positive", NoAbout, 0)
    ELSE IF ~\E b \in bal : b.ref = a.ref
    THEN Failure("no_balance", About(a.ref.serie, a.ref.numar), 0)
    ELSE NoFailure
AllocationError(bal, a) ==
    IF a.valoare <= 0 THEN Failure("not_positive", NoAbout, 0)
    ELSE IF ~\E b \in bal : b.ref = a.ref
    THEN Failure("no_balance", About(a.ref.serie, a.ref.numar), 0)
    ELSE IF a.valoare - (CHOOSE b \in bal : b.ref = a.ref).rest > EPSILON_ALLOCATION
    THEN Failure("exceeds_balance", About(a.ref.serie, a.ref.numar),
                 Round2((CHOOSE b \in bal : b.ref = a.ref).rest))
    ELSE NoFailure

\* record_collection_group: the validation loop stops at the first error
RECURSIVE ValidateAllocations(_, _)
ValidateAllocations(bal, req) ==
    IF req = <<>> THEN NoFailure
    ELSE LET e == AllocationError(bal, Head(req)) IN
         IF e # NoFailure THEN e ELSE ValidateAllocations(bal, Tail(req))

\* record_collection_group: the insert loop inside the transaction; a row
\* inserted for one allocation is seen by the check of the next
RECURSIVE InsertAllocations(_, _, _, _, _)
InsertAllocations(tbl, req, gid, rid, rn) ==
    IF req = <<>> THEN [ok |-> TRUE, tbl |-> tbl, about |-> NoAbout]
    ELSE IF InProgress(tbl, Head(req).ref)
    THEN [ok |-> FALSE, tbl |-> tbl,
          about |-> About(Head(req).ref.serie, Head(req).ref.numar)]
    ELSE InsertAllocations(
             AddRow(tbl, rid, NewCollectionRow(gid, rn, Head(req).ref, Head(req).valoare)),
             Tail(req), gid, rid + 1, rn)

\* request.allocations.is_empty()
AllocationsNeverEmpty(req) == FALSE
AllocationsEmpty(req) == Len(req) = 0

\* record_collection_group up to the point where it takes the lock for the
\* inserts: the request is validated against get_client_balances.
RecordCollectionGroup(req) ==
    /\ MainIdle
    /\ next_uuid + Len(req) <= MaxCollectionIds
    /\ ReceiptBelowCap
    /\ LET e == IF AllocationsEmpty(req) THEN Failure("empty", NoAbout, 0)
                ELSE ValidateAllocations(
                         GetClientBalances(agent_settings, invoices, collections,
                                           client_balances), req)
       IN IF e # NoFailure
          THEN /\ ret' = OutcomeAbout("record_collection_group", FALSE, e.err,
                                      e.about, e.rest)
               /\ UNCHANGED main_vars
          ELSE /\ main_pc' = "rcg_insert"
               /\ main_req' = req
               /\ UNCHANGED ret
    /\ UNCHANGED <<agent_settings, coll_vars, rc_frame>>

\* ROLLBACK: the table as it was at BEGIN IMMEDIATE TRANSACTION
NoRollback(before, now) == now
Rollback(before, now) == before

\* record_collection_group, second part: receipt number, group id, and the
\* transaction that inserts one row per allocation.
RCG_Insert ==
    /\ main_pc = "rcg_insert"
    /\ LET g == GenerateReceiptNumber(agent_settings, clock)
           r == InsertAllocations(collections, main_req, next_uuid, next_uuid + 1, g.number)
       IN IF ~g.ok
          THEN /\ Returned("record_collection_group", FALSE, g.err)
               /\ UNCHANGED <<agent_settings, coll_vars>>
          ELSE /\ agent_settings' = g.settings
               /\ IF r.ok
                  THEN /\ collections' = r.tbl
                       /\ next_uuid' = next_uuid + 1 + Len(main_req)
                       /\ Returned("record_collection_group", TRUE, "none")
                  ELSE /\ ret' = OutcomeAbout("record_collection_group", FALSE,
                                              "in_progress", r.about, 0)
                       /\ collections' = Rollback(collections, r.tbl)
                       /\ UNCHANGED next_uuid
               /\ UNCHANGED client_balances
    /\ main_pc' = "idle"
    /\ main_req' = <<>>
    /\ UNCHANGED rc_frame

\* record_collection_from_invoice: what is left to collect of the gross total
RemainingOfInvoice(inv, tbl, i) ==
    Max0(inv[i].gross - TotalCollectedOfInvoice(tbl, inv[i].invoice_number))

\* get_invoice_remaining_for_collection: what is left of total_amount
GetInvoiceRemainingForCollection(inv, tbl, i) ==
    Max0(inv[i].total_amount - TotalCollectedOfInvoice(tbl, inv[i].invoice_number))

\* record_collection_from_invoice: a payment taken on a local invoice.
RecordCollectionFromInvoice(i, paid_amount) ==
    LET fail(e) == /\ Returned("record_collection_from_invoice", FALSE, e)
                   /\ UNCHANGED <<agent_settings, coll_vars>>
        g == GenerateReceiptNumber(agent_settings, clock)
    IN
    /\ MainIdle
    /\ next_uuid <= MaxCollectionIds
    /\ ReceiptBelowCap
    /\ IF paid_amount <= 0 THEN fail("not_positive")
       ELSE IF i \notin DOMAIN invoices THEN fail("not_found")
       ELSE IF paid_amount > invoices[i].gross + EPSILON THEN fail("exceeds_total")
       ELSE IF ~g.ok THEN fail(g.err)
       ELSE LET n == invoices[i].invoice_number
                remaining == RemainingOfInvoice(invoices, collections, i)
            IN /\ agent_settings' = g.settings
               /\ IF remaining <= EPSILON
                  THEN /\ Returned("record_collection_from_invoice", FALSE, "fully_collected")
                       /\ UNCHANGED coll_vars
                  ELSE IF paid_amount > remaining + EPSILON
                  THEN /\ Returned("record_collection_from_invoice", FALSE, "exceeds_remaining")
                       /\ UNCHANGED coll_vars
                  ELSE /\ collections' =
                             AddRow(collections, next_uuid,
                                    NewCollectionRow(next_uuid, g.number,
                                                     InvoiceRef(agent_settings, n), paid_amount))
                       /\ next_uuid' = next_uuid + 1
                       /\ Returned("record_collection_from_invoice", TRUE, "none")
                       /\ UNCHANGED client_balances
    /\ UNCHANGED <<main_vars, rc_frame>>

\* record_collection_from_invoice returns Ok for the invoice i and the amount
\* paid_amount in the store (s, inv, tbl).
FromInvoiceAccepts(s, inv, tbl, now, i, paid_amount) ==
    /\ paid_amount > 0
    /\ i \in DOMAIN inv
    /\ paid_amount <= inv[i].gross + EPSILON
    /\ GenerateReceiptNumber(s, now).ok
    /\ RemainingOfInvoice(inv, tbl, i) > EPSILON
    /\ paid_amount <= RemainingOfInvoice(inv, tbl, i) + EPSILON

\* record_collection_group returns Ok for the request req in the store
\* (s, inv, tbl, cb).
GroupAccepts(s, inv, tbl, cb, now, req) ==
    /\ ~AllocationsEmpty(req)
    /\ ValidateAllocations(GetClientBalances(s, inv, tbl, cb), req) = NoFailure
    /\ GenerateReceiptNumber(s, now).ok
    /\ InsertAllocations(tbl, req, 0, 0, GenerateReceiptNumber(s, now).number).ok

\* delete_collection: DELETE FROM collections WHERE
\* COALESCE(receipt_group_id, id) = ?1 OR id = ?1, whatever the status is.
DeleteCollection(id) ==
    /\ MainIdle
    /\ collections' = [i \in {j \in DOMAIN collections :
                                 collections[j].receipt_group_id # id /\ j # id}
                           |-> collections[i]]
    /\ Returned("delete_collection", TRUE, "none")
    /\ UNCHANGED <<agent_settings, next_uuid, client_balances, main_vars, rc_frame>>

---------------------------------------------------------------------------
\* The remote ledger.

\* The gateway books an accepted receipt: each allocation line reduces the rest
\* of the document with its series and number.
ApplyReceipt(rest, rows) ==
    [d \in DOMAIN rest |->
        Max0(rest[d] - SumFn([r \in rows |-> r.valoare],
                             {r \in rows : /\ r.serie_factura = d.serie
                                           /\ r.numar_factura = d.numar}))]

\* A document is settled in the remote ledger by other means than this
\* application (a bank transfer, another agent).
RemotePayment(d) ==
    /\ remote_rest[d] > 0
    /\ remote_rest' = [remote_rest EXCEPT ![d] = 0]
    /\ UNCHANGED <<agent_settings, inv_vars, ret, main_vars, async_vars, coll_vars,
                   accepted, clock, conn_lock>>

---------------------------------------------------------------------------
\* sync_client_balances: replace the mirror by the remote balances.

\* What a step of an asynchronous collection command that writes no row
\* leaves alone.
sc_frame == <<agent_settings, inv_vars, ret, main_vars, coll_vars, remote_vars, clock, conn_lock>>

\* The lines kept from the reply: those with a rest above zero.
KeptLines(rest) ==
    LET kept == {d \in DOMAIN rest : rest[d] > 0} IN [d \in kept |-> rest[d]]

\* Up to the request: settings, local partners, client.
SyncClientBalances(t) ==
    /\ pc[t] = "idle"
    /\ pc' = [pc EXCEPT ![t] = "scb_wait"]
    /\ UNCHANGED <<sc_frame, loc>>

\* get_all_solduri(..).await returns the balances
SCB_Reply(t) ==
    /\ pc[t] = "scb_wait"
    /\ pc' = [pc EXCEPT ![t] = "scb_store"]
    /\ loc' = [loc EXCEPT ![t].snapshot = KeptLines(remote_rest)]
    /\ UNCHANGED sc_frame

\* get_all_solduri(..).await returns Err
SCB_Error(t) ==
    /\ pc[t] = "scb_wait"
    /\ pc' = [pc EXCEPT ![t] = "idle"]
    /\ loc' = [loc EXCEPT ![t] = IdleLoc]
    /\ UNCHANGED sc_frame

\* DELETE FROM client_balances, then one INSERT per kept line
SCB_Store(t) ==
    /\ pc[t] = "scb_store"
    /\ client_balances' = loc[t].snapshot
    /\ pc' = [pc EXCEPT ![t] = "idle"]
    /\ loc' = [loc EXCEPT ![t] = IdleLoc]
    /\ UNCHANGED <<agent_settings, inv_vars, ret, main_vars, collections, next_uuid,
                   remote_vars, clock, conn_lock>>

---------------------------------------------------------------------------
\* send_collection and its batch caller.

\* The rows of the group as send_collection holds them after loading.
LoadedRows(tbl, g) ==
    {[id |-> i, serie_factura |-> tbl[i].serie_factura,
      numar_factura |-> tbl[i].numar_factura, valoare |-> tbl[i].valoare] :
        i \in GroupRows(tbl, g)}

\* let total_value: f64 = rows.iter().map(|r| r.9).sum()
TotalValue(rows) == SumFn([r \in rows |-> r.valoare], rows)

\* Variant: a loop that ends with the first call.
StopAfterSendCollection(l) == "idle"

\* A batch caller's loop: where a task goes when one send_collection call returns.
PcAfterSendCollection(l) == IF l.queue = <<>> THEN "idle" ELSE "sc_load"

ReturnFromSendCollection(t, ok, err) ==
    /\ pc' = [pc EXCEPT ![t] = PcAfterSendCollection(loc[t])]
    /\ loc' = [loc EXCEPT ![t] = LocAfterSend(loc[t])]
    /\ Returned("send_collection", ok, err)

\* What a step of send_collection that only returns leaves alone.
sc_return_frame == <<agent_settings, inv_vars, main_vars, coll_vars, remote_vars, clock, conn_lock>>
\* What a step of send_collection that writes the collections table leaves alone.
sc_write_frame == <<agent_settings, inv_vars, main_vars, next_uuid, client_balances,
                    remote_vars, clock, conn_lock>>

\* First block of send_collection: settings and the rows of the group.
LoadCollection(t, l) ==
    LET rows == LoadedRows(collections, l.id) IN
    /\ IF rows = {}
       THEN /\ pc' = [pc EXCEPT ![t] = PcAfterSendCollection(l)]
            /\ loc' = [loc EXCEPT ![t] = LocAfterSend(l)]
            /\ Returned("send_collection", FALSE, "not_found")
       ELSE /\ pc' = [pc EXCEPT ![t] = "sc_mark"]
            /\ loc' = [loc EXCEPT ![t] = [l EXCEPT !.rows = rows, !.total = TotalValue(rows)]]
            /\ UNCHANGED ret
    /\ UNCHANGED sc_return_frame

\* send_collection called as a command
SendCollection(t, g) ==
    /\ pc[t] = "idle"
    /\ LoadCollection(t, [IdleLoc EXCEPT !.id = g])

\* send_collection called from the loop of sync_collections
SC_Load(t) ==
    /\ pc[t] = "sc_load"
    /\ LoadCollection(t, loc[t])

\* Descending list of the members of a set of ids (ORDER BY MAX(created_at) DESC).
RECURSIVE SortedSeqDesc(_)
SortedSeqDesc(S) ==
    IF S = {} THEN <<>>
    ELSE LET m == CHOOSE x \in S : \A y \in S : x >= y
         IN <<m>> \o SortedSeqDesc(S \ {m})

\* sync_collections: get_collections(Some("pending")), then the first call.
SyncCollections(t) ==
    LET ids == {g \in GroupIdsOf(collections) : GroupStatus(collections, g) = "pending"}
        q == SortedSeqDesc(ids)
    IN
    /\ pc[t] = "idle"
    /\ IF ids = {}
       THEN UNCHANGED async_vars
       ELSE /\ pc' = [pc EXCEPT ![t] = "sc_load"]
            /\ loc' = [loc EXCEPT ![t] = [IdleLoc EXCEPT !.id = Head(q), !.queue = Tail(q)]]
    /\ UNCHANGED sc_frame

\* save_receipt_html_file(..)? fails: Err before any status is written
SC_SaveFail(t) ==
    /\ pc[t] = "sc_mark"
    /\ ReturnFromSendCollection(t, FALSE, "receipt_file")
    /\ UNCHANGED sc_return_frame

\* Variant: a status write that does not spare synced rows.
MovableUnlessSending(status) == status # "sending"

\* The WHERE clause of the conditional status write.
Movable(status) == status # "sending" /\ status # "synced"

\* UPDATE collections SET status = 'sending' WHERE group AND movable;
\* no row affected: return without sending.
SC_Mark(t) ==
    LET g == loc[t].id
        hit == {i \in GroupRows(collections, g) : Movable(collections[i].status)}
    IN
    /\ pc[t] = "sc_mark"
    /\ IF hit = {}
       THEN /\ ReturnFromSendCollection(t, TRUE, "skipped")
            /\ UNCHANGED collections
       ELSE /\ collections' = [i \in DOMAIN collections |->
                                 IF i \in hit THEN [collections[i] EXCEPT !.status = "sending"]
                                 ELSE collections[i]]
            /\ pc' = [pc EXCEPT ![t] = "sc_client"]
            /\ UNCHANGED <<loc, ret>>
    /\ UNCHANGED sc_write_frame

\* ApiClient::from_default()? fails: Err, the rows stay as they are
SC_NoClient(t) ==
    /\ pc[t] = "sc_client"
    /\ ReturnFromSendCollection(t, FALSE, "client")
    /\ UNCHANGED sc_return_frame

\* api.get_solduri_clienti(check_filter): the request leaves
SC_CheckRequest(t) ==
    /\ pc[t] = "sc_client"
    /\ pc' = [pc EXCEPT ![t] = "sc_check_wait"]
    /\ UNCHANGED <<sc_frame, loc>>

\* The numbers of the group's invoices.
InvoiceNumbers(rows) == {Unwrap(r.numar_factura) : r \in {x \in rows : IsSome(x.numar_factura)}}

\* found_unpaid_amount: the rests above 0.01 of the reply's lines whose number
\* is one of the group's.
FoundUnpaidAmount(rows, response) ==
    SumFn(response, {d \in DOMAIN response :
                        /\ Coalesce(d.numar, 0) \in InvoiceNumbers(rows)
                        /\ response[d] > MIN_REST})

\* Variant: a decision that takes the group for paid only when nothing is left.
AlreadyPaidWhenNothingLeft(rows, total_value, response) ==
    /\ InvoiceNumbers(rows) # {}
    /\ FoundUnpaidAmount(rows, response) = 0

\* The decision taken on a reply to the balance check.
AlreadyPaid(rows, total_value, response) ==
    /\ InvoiceNumbers(rows) # {}
    /\ FoundUnpaidAmount(rows, response) < total_value - DUPLICATE_BUFFER

\* Variant: a check that has to succeed before anything is sent.
PcAfterCheckStrict(check_ok, already_paid) ==
    IF check_ok /\ ~already_paid THEN "sc_request" ELSE "sc_dup"

\* Where send_collection continues after the balance check.
PcAfterCheck(check_ok, already_paid) ==
    IF check_ok /\ already_paid THEN "sc_dup" ELSE "sc_request"

\* .await returns Ok(response)
SC_CheckReply(t) ==
    LET paid == AlreadyPaid(loc[t].rows, loc[t].total, remote_rest) IN
    /\ pc[t] = "sc_check_wait"
    /\ pc' = [pc EXCEPT ![t] = PcAfterCheck(TRUE, paid)]
    /\ loc' = [loc EXCEPT ![t].reply = "balances"]
    /\ UNCHANGED sc_frame

\* .await returns Err(e): "Proceeding with send to be safe"
SC_CheckError(t) ==
    /\ pc[t] = "sc_check_wait"
    /\ pc' = [pc EXCEPT ![t] = PcAfterCheck(FALSE, FALSE)]
    /\ loc' = [loc EXCEPT ![t].reply = "check_failed"]
    /\ UNCHANGED sc_frame

\* Variant: a status write that reaches the first row of the group only.
SetFirstRowStatus(tbl, g, status, synced, err) ==
    [i \in DOMAIN tbl |->
        IF tbl[i].receipt_group_id = g /\ \A j \in GroupRows(tbl, g) : i <= j
        THEN [tbl[i] EXCEPT !.status = status, !.error_message = err,
                            !.synced_at = IF synced THEN TRUE ELSE @]
        ELSE tbl[i]]

\* UPDATE collections SET status = ... WHERE COALESCE(receipt_group_id, id) = ?
SetGroupStatus(tbl, g, status, synced, err) ==
    [i \in DOMAIN tbl |->
        IF tbl[i].receipt_group_id = g
        THEN [tbl[i] EXCEPT !.status = status, !.error_message = err,
                            !.synced_at = IF synced THEN TRUE ELSE @]
        ELSE tbl[i]]

\* if already_paid: "Skip sending to API, just mark as synced"
SC_MarkDuplicate(t) ==
    /\ pc[t] = "sc_dup"
    /\ collections' = SetGroupStatus(collections, loc[t].id, "synced", TRUE, "null")
    /\ ReturnFromSendCollection(t, TRUE, "already_paid")
    /\ UNCHANGED sc_write_frame

\* api.send_collections_to_wme(request): the request leaves
SC_Submit(t) ==
    /\ pc[t] = "sc_request"
    /\ pc' = [pc EXCEPT ![t] = "sc_wait"]
    /\ UNCHANGED <<sc_frame, loc>>

\* What happens to a submission:
\*   accepted       the gateway books the receipt and answers "ok"
\*   accepted_lost  the gateway books the receipt, the answer does not arrive
\*   rejected       the gateway answers with an error list
\*   unreachable    the request does not arrive
\*   unconfirmed    the gateway answers without the result "ok" and without errors
CollectionOutcomes == {"accepted", "accepted_lost", "rejected", "unreachable"}
AllCollectionOutcomes == CollectionOutcomes \cup {"unconfirmed"}
Booked(o) == o \in {"accepted", "accepted_lost"}
ReplyOf(o) ==
    IF o = "accepted" THEN "ok"
    ELSE IF o = "rejected" THEN "rejected"
    ELSE IF o = "unconfirmed" THEN "no_errors"
    ELSE "error"

\* Ok(response): an answer arrived
GatewayAnswered(r) == r \in {"ok", "rejected", "no_errors"}
\* err_list.to_lowercase() == "ok"
ResultOk(r) == r = "ok"
\* response.error_list.is_empty()
ErrorListEmpty(r) == r \in {"ok", "no_errors"}

\* .await returns
SC_Reply(t, o) ==
    /\ pc[t] = "sc_wait"
    /\ IF Booked(o)
       THEN /\ accepted[loc[t].id] < MaxAccept
            /\ accepted' = [accepted EXCEPT ![loc[t].id] = @ + 1]
            /\ remote_rest' = ApplyReceipt(remote_rest, loc[t].rows)
       ELSE UNCHANGED remote_vars
    /\ pc' = [pc EXCEPT ![t] = "sc_persist"]
    /\ loc' = [loc EXCEPT ![t].reply = ReplyOf(o)]
    /\ UNCHANGED <<agent_settings, inv_vars, ret, main_vars, coll_vars, clock, conn_lock>>

\* Variant: a gateway that cannot be reached counts as a failed submission.
PersistCollectionReplyFailing(tbl, g, r) ==
    IF r = "ok" THEN SetGroupStatus(tbl, g, "synced", TRUE, "null")
    ELSE SetGroupStatus(tbl, g, "failed", FALSE, "api_error")

\* The rows written for each kind of reply.
PersistCollectionReply(tbl, g, r) ==
    IF GatewayAnswered(r) /\ (ResultOk(r) \/ ErrorListEmpty(r))
    THEN SetGroupStatus(tbl, g, "synced", TRUE, "null")
    ELSE IF GatewayAnswered(r) THEN SetGroupStatus(tbl, g, "failed", FALSE, "api_error")
    ELSE SetGroupStatus(tbl, g, "pending", FALSE, "offline")

\* match api_result, then the group is read back and returned
SC_Persist(t) ==
    /\ pc[t] = "sc_persist"
    /\ collections' = PersistCollectionReply(collections, loc[t].id, loc[t].reply)
    /\ IF GroupRows(collections, loc[t].id) = {}
       THEN ReturnFromSendCollection(t, FALSE, "not_found")
       ELSE ReturnFromSendCollection(t, TRUE, "none")
    /\ UNCHANGED sc_write_frame

\* Positions of a task inside send_collection.
SendCollectionPcs ==
    {"sc_load", "sc_mark", "sc_client", "sc_check_wait", "sc_dup", "sc_request",
     "sc_wait", "sc_persist"}

---------------------------------------------------------------------------
\* Specifications.

\* A fresh installation: empty tables, no settings row, no command running.
Init ==
    /\ agent_settings = NoSettingsRow
    /\ invoices = EmptyTable
    /\ next_invoice_id = 1
    /\ issued = <<>>
    /\ last_issued = None
    /\ ret = Outcome("none", TRUE, "none")
    /\ main_pc = "idle"
    /\ main_req = <<>>
    /\ pc = [t \in Tasks |-> "idle"]
    /\ loc = [t \in Tasks |-> IdleLoc]
    /\ collections = EmptyTable
    /\ next_uuid = 1
    /\ client_balances = EmptyTable
    /\ remote_rest = InitialRest
    /\ accepted = [g \in GroupIds |-> 0]
    /\ clock = 0
    /\ conn_lock = 0

Amounts == {1000000}

\* Invoice numbering: invoices are created and deleted and the operator edits
\* the numbering fields of the settings form.
NextNumbering ==
    \/ \E g \in Amounts : CreateInvoice(g)
    \/ \E i \in InvoiceIds : DeleteInvoice(i)
    \/ \E istart, iend, icur \in OptNumbers :
          SaveAgentSettings(TRUE, Some("A"), istart, iend, icur,
                            Some(DefaultNumberStart), Some(DefaultNumberEnd),
                            Some(DefaultNumberStart))

SpecNumbering == Init /\ [][NextNumbering]_vars

\* Invoice life cycle: creation, the send paths, cancellation.
NextInvoices ==
    \/ \E g \in Amounts : CreateInvoice(g)
    \/ \E f \in BOOLEAN :
          SaveAgentSettings(f, Some("A"), agent_settings.invoice_number_start,
                            agent_settings.invoice_number_end,
                            agent_settings.invoice_number_current,
                            agent_settings.receipt_number_start,
                            agent_settings.receipt_number_end,
                            agent_settings.receipt_number_current)
    \/ \E i \in InvoiceIds : CancelInvoiceSending(i)
    \/ \E t \in Tasks, i \in InvoiceIds : SendInvoice(t, i)
    \/ \E t \in Tasks : SendAllPendingInvoices(t)
    \/ \E t \in Tasks : SyncAllDataAutoSend(t)
    \/ \E t \in Tasks : SI_Load(t)
    \/ \E t \in Tasks : SI_Settings(t)
    \/ \E t \in Tasks : SI_ValidateFail(t)
    \/ \E t \in Tasks : SI_MarkSending(t)
    \/ \E t \in Tasks : SI_Submit(t)
    \/ \E t \in Tasks : SI_NoClient(t)
    \/ \E t \in Tasks, r \in InvoiceReplies : SI_Reply(t, r)
    \/ \E t \in Tasks : SI_Persist(t)

SpecInvoices == Init /\ [][NextInvoices]_vars

\* What the operator enters in the collection screens.
PaidAmounts == {400000, 1000000}
Allocation(ref, valoare) == [ref |-> ref, valoare |-> valoare]
GroupRequests ==
    {<<Allocation(DocX, 400000)>>, <<Allocation(DocX, 1000000)>>,
     <<Allocation(DocZ, 400000)>>,
     <<Allocation(DocX, 1000000), Allocation(DocZ, 400000)>>,
     <<>>, <<Allocation(DocZ, 1000000)>>,
     <<Allocation(DocX, 400000), Allocation(DocZ, 0)>>,
     <<Allocation(DocX, 0), Allocation(DocZ, 1000000)>>}

\* Collections on remote documents: balances are pulled, payments are recorded
\* in groups, receipts are sent and re-sent, documents are settled elsewhere.
NextCollections ==
    \/ SaveAgentSettings(TRUE, Some("A"), Some(DefaultNumberStart), Some(DefaultNumberEnd),
                         Some(DefaultNumberStart), Some(DefaultNumberStart),
                         Some(DefaultNumberEnd), Some(DefaultNumberStart))
    \/ \E d \in RemoteDocs : RemotePayment(d)
    \/ \E t \in CollectionTasks : SyncClientBalances(t)
    \/ \E t \in CollectionTasks : SCB_Reply(t)
    \/ \E t \in CollectionTasks : SCB_Error(t)
    \/ \E t \in CollectionTasks : SCB_Store(t)
    \/ \E req \in GroupRequests : RecordCollectionGroup(req)
    \/ RCG_Insert
    \/ \E t \in CollectionTasks, g \in GroupIds : SendCollection(t, g)
    \/ \E t \in CollectionTasks : SyncCollections(t)
    \/ \E t \in CollectionTasks : SC_Load(t)
    \/ \E t \in CollectionTasks : SC_SaveFail(t)
    \/ \E t \in CollectionTasks : SC_Mark(t)
    \/ \E t \in CollectionTasks : SC_NoClient(t)
    \/ \E t \in CollectionTasks : SC_CheckRequest(t)
    \/ \E t \in CollectionTasks : SC_CheckReply(t)
    \/ \E t \in CollectionTasks : SC_CheckError(t)
    \/ \E t \in CollectionTasks : SC_MarkDuplicate(t)
    \/ \E t \in CollectionTasks : SC_Submit(t)
    \/ \E t \in CollectionTasks, o \in CollectionOutcomes : SC_Reply(t, o)
    \/ \E t \in CollectionTasks : SC_Persist(t)

SpecCollections == Init /\ [][NextCollections]_vars

\* Collections on a local invoice: the invoice is created, payments are taken
\* on it, the receipts are sent and re-sent.
NextInvoiceCollections ==
    \/ \E g \in Amounts : next_invoice_id <= 1 /\ CreateInvoice(g)
    \/ \E i \in InvoiceIds, a \in PaidAmounts : RecordCollectionFromInvoice(i, a)
    \/ \E t \in CollectionTasks, g \in GroupIds : SendCollection(t, g)
    \/ \E t \in CollectionTasks : SyncCollections(t)
    \/ \E t \in CollectionTasks : SC_Load(t)
    \/ \E t \in CollectionTasks : SC_SaveFail(t)
    \/ \E t \in CollectionTasks : SC_Mark(t)
    \/ \E t \in CollectionTasks : SC_NoClient(t)
    \/ \E t \in CollectionTasks : SC_CheckRequest(t)
    \/ \E t \in CollectionTasks : SC_CheckReply(t)
    \/ \E t \in CollectionTasks : SC_CheckError(t)
    \/ \E t \in CollectionTasks : SC_MarkDuplicate(t)
    \/ \E t \in CollectionTasks : SC_Submit(t)
    \/ \E t \in CollectionTasks, o \in CollectionOutcomes : SC_Reply(t, o)
    \/ \E t \in CollectionTasks : SC_Persist(t)

SpecInvoiceCollections == Init /\ [][NextInvoiceCollections]_vars

---------------------------------------------------------------------------
\* Number allocation, statement by statement.  create_invoice and
\* record_collection are followed through the statements they execute while
\* they hold the connection mutex, for callers t that contend for it (a caller
\* blocked in lock() is a caller whose first step is not enabled).

\* db.conn.lock() returns: nobody holds the mutex
LockAlwaysFree == TRUE
LockFree == conn_lock = 0

\* The command returns: the guard is dropped.
ReturnFromAllocation(t, op, ok, err) ==
    /\ conn_lock' = 0
    /\ pc' = [pc EXCEPT ![t] = "idle"]
    /\ loc' = [loc EXCEPT ![t] = IdleLoc]
    /\ Returned(op, ok, err)

\* create_invoice takes the mutex (and resolves partner, location and items).
CI_Lock(t, gross) ==
    /\ pc[t] = "idle"
    /\ LockFree
    /\ next_invoice_id <= MaxInvoices
    /\ conn_lock' = t
    /\ pc' = [pc EXCEPT ![t] = "ci_read"]
    /\ loc' = [loc EXCEPT ![t].total = gross]
    /\ UNCHANGED <<agent_settings, inv_vars, ret, main_vars, coll_vars, remote_vars, clock>>

\* create_invoice: the SELECT of the current number and the range check
CI_Read(t) ==
    LET r == ReadInvoiceNumber(agent_settings) IN
    /\ pc[t] = "ci_read"
    /\ IF r.number > r.end
       THEN ReturnFromAllocation(t, "create_invoice", FALSE, "range")
       ELSE /\ pc' = [pc EXCEPT ![t] = "ci_insert"]
            /\ loc' = [loc EXCEPT ![t].number = [kind |-> "counter", n |-> r.number]]
            /\ UNCHANGED <<ret, conn_lock>>
    /\ UNCHANGED <<agent_settings, inv_vars, main_vars, coll_vars, remote_vars, clock>>

\* create_invoice: the INSERT of the invoice row
CI_Insert(t) ==
    LET n == loc[t].number.n IN
    /\ pc[t] = "ci_insert"
    /\ IF NumberTaken(n)
       THEN /\ ReturnFromAllocation(t, "create_invoice", FALSE, "unique")
            /\ UNCHANGED inv_vars
       ELSE /\ invoices' = AddRow(invoices, next_invoice_id, NewInvoiceRow(n, loc[t].total))
            /\ next_invoice_id' = next_invoice_id + 1
            /\ issued' = Append(issued, n)
            /\ last_issued' = Some(n)
            /\ pc' = [pc EXCEPT ![t] = "ci_bump"]
            /\ UNCHANGED <<loc, ret, conn_lock>>
    /\ UNCHANGED <<agent_settings, main_vars, coll_vars, remote_vars, clock>>

\* create_invoice: the UPSERT that advances the counter, the item rows, Ok
CI_Bump(t) ==
    /\ pc[t] = "ci_bump"
    /\ agent_settings' = BumpInvoiceNumber(agent_settings, loc[t].number.n)
    /\ ReturnFromAllocation(t, "create_invoice", TRUE, "none")
    /\ UNCHANGED <<inv_vars, main_vars, coll_vars, remote_vars, clock>>

\* record_collection takes the mutex.
RC_Lock(t, ref, valoare) ==
    /\ pc[t] = "idle"
    /\ LockFree
    /\ next_uuid <= MaxCollectionIds
    /\ ReceiptBelowCap
    /\ conn_lock' = t
    /\ pc' = [pc EXCEPT ![t] = "rc_read"]
    /\ loc' = [loc EXCEPT ![t].req = <<Allocation(ref, valoare)>>]
    /\ UNCHANGED <<agent_settings, inv_vars, ret, main_vars, coll_vars, remote_vars, clock>>

\* generate_receipt_number: the SELECT of the counter and the limit check
RC_Read(t) ==
    LET g == GenerateReceiptNumber(agent_settings, clock) IN
    /\ pc[t] = "rc_read"
    /\ IF ~g.ok
       THEN ReturnFromAllocation(t, "record_collection", FALSE, g.err)
       ELSE /\ pc' = [pc EXCEPT ![t] = "rc_bump"]
            /\ loc' = [loc EXCEPT ![t].number = g.number]
            /\ UNCHANGED <<ret, conn_lock>>
    /\ UNCHANGED <<agent_settings, inv_vars, main_vars, coll_vars, remote_vars, clock>>

\* generate_receipt_number: UPDATE agent_settings SET receipt_number_current =
\* val + 1 (no statement when the number came from the clock)
RC_Bump(t) ==
    /\ pc[t] = "rc_bump"
    /\ agent_settings' =
           IF loc[t].number.kind = "counter"
           THEN [agent_settings EXCEPT !.receipt_number_current = Some(loc[t].number.n + 1)]
           ELSE agent_settings
    /\ pc' = [pc EXCEPT ![t] = "rc_insert"]
    /\ UNCHANGED <<inv_vars, ret, main_vars, loc, coll_vars, remote_vars, clock, conn_lock>>

\* record_collection: the existence check and the INSERT
RC_Insert(t) ==
    LET a == Head(loc[t].req) IN
    /\ pc[t] = "rc_insert"
    /\ IF InProgress(collections, a.ref)
       THEN /\ ReturnFromAllocation(t, "record_collection", FALSE, "in_progress")
            /\ UNCHANGED coll_vars
       ELSE /\ collections' =
                  AddRow(collections, next_uuid,
                         NewCollectionRow(next_uuid, loc[t].number, a.ref, a.valoare))
            /\ next_uuid' = next_uuid + 1
            /\ ReturnFromAllocation(t, "record_collection", TRUE, "none")
            /\ UNCHANGED client_balances
    /\ UNCHANGED <<agent_settings, inv_vars, main_vars, remote_vars, clock>>

\* Callers contending for the connection: the settings are saved once, then
\* invoices are created and collections recorded from several threads.
NextAllocation ==
    \/ /\ ~agent_settings.present
       /\ LockFree
       /\ SaveAgentSettings(TRUE, Some("A"), Some(DefaultNumberStart),
                            Some(DefaultNumberEnd), Some(DefaultNumberStart),
                            Some(DefaultNumberStart), Some(DefaultNumberEnd),
                            Some(DefaultNumberStart))
    \/ \E t \in Tasks, g \in Amounts : CI_Lock(t, g)
    \/ \E t \in Tasks : CI_Read(t)
    \/ \E t \in Tasks : CI_Insert(t)
    \/ \E t \in Tasks : CI_Bump(t)
    \/ \E t \in Tasks, d \in RemoteDocs : RC_Lock(t, d, 400000)
    \/ \E t \in Tasks : RC_Read(t)
    \/ \E t \in Tasks : RC_Bump(t)
    \/ \E t \in Tasks : RC_Insert(t)

SpecAllocation == Init /\ [][NextAllocation]_vars

---------------------------------------------------------------------------
\* Receipts recorded one by one while time passes.

\* One second passes.
Tick ==
    /\ clock < MaxClock
    /\ clock' = clock + 1
    /\ UNCHANGED <<agent_settings, inv_vars, ret, main_vars, async_vars, coll_vars,
                   remote_vars, conn_lock>>

\* The documents the collection screen offers.
RecordedRefs == {DocZ, DocN}

\* The receipt numbering as the operator fills it in: left empty, or from 1.
ReceiptStarts == {None, Some(DefaultNumberStart)}

\* The operator saves the settings, with or without a receipt numbering, pulls
\* the balances, issues an invoice, and records single collections on the
\* remote documents and on the invoice.
NextReceipts ==
    \/ \E rs \in ReceiptStarts :
          SaveAgentSettings(TRUE, Some("A"), Some(DefaultNumberStart),
                            Some(DefaultNumberEnd), Some(DefaultNumberStart),
                            rs, Some(DefaultNumberEnd), rs)
    \/ Tick
    \/ \E t \in CollectionTasks : SyncClientBalances(t)
    \/ \E t \in CollectionTasks : SCB_Reply(t)
    \/ \E t \in CollectionTasks : SCB_Error(t)
    \/ \E t \in CollectionTasks : SCB_Store(t)
    \/ \E g \in Amounts : next_invoice_id <= 1 /\ CreateInvoice(g)
    \/ \E d \in RecordedRefs, a \in PaidAmounts : RecordCollection(d, a)
    \/ \E i \in InvoiceIds, a \in PaidAmounts : RecordCollectionFromInvoice(i, a)

SpecReceipts == Init /\ [][NextReceipts]_vars

---------------------------------------------------------------------------
\* Receipt groups recorded on the documents of the mirror.

\* Batches of the collection screen: one document, two documents, and the same
\* document twice (with and without a series).
BatchRequests ==
    {<<Allocation(DocX, 400000)>>,
     <<Allocation(DocX, 1000000), Allocation(DocZ, 400000)>>,
     <<Allocation(DocX, 400000), Allocation(DocX, 400000)>>,
     <<Allocation(DocN, 100000), Allocation(DocN, 100000)>>}

\* The operator saves the settings, with or without a receipt numbering, pulls
\* the balances, records batches and deletes collections.
NextGroups ==
    \/ \E rs \in ReceiptStarts :
          SaveAgentSettings(TRUE, Some("A"), Some(DefaultNumberStart),
                            Some(DefaultNumberEnd), Some(DefaultNumberStart),
                            rs, Some(DefaultNumberEnd), rs)
    \/ Tick
    \/ \E t \in CollectionTasks : SyncClientBalances(t)
    \/ \E t \in CollectionTasks : SCB_Reply(t)
    \/ \E t \in CollectionTasks : SCB_Error(t)
    \/ \E t \in CollectionTasks : SCB_Store(t)
    \/ \E req \in BatchRequests : RecordCollectionGroup(req)
    \/ RCG_Insert
    \/ \E id \in GroupIds : DeleteCollection(id)

SpecGroups == Init /\ [][NextGroups]_vars

---------------------------------------------------------------------------
\* cancel_invoice_sending, statement by statement, against sends in flight.
\* The main thread holds the connection mutex from its first statement to its
\* return; a task that needs the connection waits for it.

\* The holder of the mutex when it is the main thread.
MainThread == NumTasks + 1

\* cancel_invoice_sending takes the mutex.
CIS_Lock(i) ==
    /\ MainIdle
    /\ LockFree
    /\ conn_lock' = MainThread
    /\ main_pc' = "cis_check"
    /\ main_req' = <<i>>
    /\ UNCHANGED <<agent_settings, inv_vars, ret, async_vars, coll_vars, remote_vars, clock>>

\* cancel_invoice_sending: the SELECT of the status and the check
CIS_Check ==
    LET i == Head(main_req) IN
    /\ main_pc = "cis_check"
    /\ IF i \notin DOMAIN invoices
       THEN /\ Returned("cancel_invoice_sending", FALSE, "not_found")
            /\ main_pc' = "idle" /\ main_req' = <<>> /\ conn_lock' = 0
       ELSE IF ~Cancellable(invoices[i].status)
       THEN /\ Returned("cancel_invoice_sending", FALSE, "not_sending")
            /\ main_pc' = "idle" /\ main_req' = <<>> /\ conn_lock' = 0
       ELSE /\ main_pc' = "cis_update"
            /\ UNCHANGED <<ret, main_req, conn_lock>>
    /\ UNCHANGED <<agent_settings, inv_vars, async_vars, coll_vars, remote_vars, clock>>

\* cancel_invoice_sending: the UPDATE, the SELECT of the row, Ok
CIS_Update ==
    /\ main_pc = "cis_update"
    /\ invoices' = SetInvoiceStatus(invoices, Head(main_req), "pending", "cancelled")
    /\ Returned("cancel_invoice_sending", TRUE, "none")
    /\ main_pc' = "idle" /\ main_req' = <<>> /\ conn_lock' = 0
    /\ UNCHANGED <<agent_settings, next_invoice_id, issued, last_issued, async_vars,
                   coll_vars, remote_vars, clock>>

\* Invoices are created and sent from tasks while the operator cancels sends;
\* a block of send_invoice that uses the connection runs when the mutex is free.
NextCancel ==
    \/ \E g \in Amounts : CreateInvoice(g)
    \/ /\ ~agent_settings.send_fields
       /\ SaveAgentSettings(TRUE, Some("A"), agent_settings.invoice_number_start,
                            agent_settings.invoice_number_end,
                            agent_settings.invoice_number_current,
                            agent_settings.receipt_number_start,
                            agent_settings.receipt_number_end,
                            agent_settings.receipt_number_current)
    \/ \E i \in InvoiceIds : CIS_Lock(i)
    \/ CIS_Check
    \/ CIS_Update
    \/ \E t \in Tasks, i \in InvoiceIds : LockFree /\ SendInvoice(t, i)
    \/ \E t \in Tasks : LockFree /\ SI_Settings(t)
    \/ \E t \in Tasks : LockFree /\ SI_ValidateFail(t)
    \/ \E t \in Tasks : LockFree /\ SI_MarkSending(t)
    \/ \E t \in Tasks : SI_Submit(t)
    \/ \E t \in Tasks : SI_NoClient(t)
    \/ \E t \in Tasks, r \in InvoiceReplies : SI_Reply(t, r)
    \/ \E t \in Tasks : LockFree /\ SI_Persist(t)

SpecCancel == Init /\ [][NextCancel]_vars

---------------------------------------------------------------------------
\* The two batch callers at work: invoices are created and payments recorded
\* while send_all_pending_invoices and sync_collections run, each in its own
\* task, against a gateway that answers, rejects or cannot be reached.

InvoiceTasks == Tasks \ CollectionTasks
RunRequests ==
    {<<Allocation(DocX, 400000)>>,
     <<Allocation(DocX, 400000), Allocation(DocZ, 400000)>>}

NextRuns ==
    \/ \E g \in Amounts : CreateInvoice(g)
    \/ /\ ~agent_settings.send_fields
       /\ SaveAgentSettings(TRUE, Some("A"), agent_settings.invoice_number_start,
                            agent_settings.invoice_number_end,
                            agent_settings.invoice_number_current,
                            agent_settings.receipt_number_start,
                            agent_settings.receipt_number_end,
                            agent_settings.receipt_number_current)
    \/ \E t \in InvoiceTasks : SendAllPendingInvoices(t)
    \/ \E t \in InvoiceTasks : SI_Load(t)
    \/ \E t \in InvoiceTasks : SI_Settings(t)
    \/ \E t \in InvoiceTasks : SI_ValidateFail(t)
    \/ \E t \in InvoiceTasks : SI_MarkSending(t)
    \/ \E t \in InvoiceTasks : SI_Submit(t)
    \/ \E t \in InvoiceTasks : SI_NoClient(t)
    \/ \E t \in InvoiceTasks, r \in InvoiceReplies : SI_Reply(t, r)
    \/ \E t \in InvoiceTasks : SI_Persist(t)
    \/ \E t \in CollectionTasks : client_balances = EmptyTable /\ SyncClientBalances(t)
    \/ \E t \in CollectionTasks : SCB_Reply(t)
    \/ \E t \in CollectionTasks : SCB_Store(t)
    \/ \E req \in RunRequests : RecordCollectionGroup(req)
    \/ RCG_Insert
    \/ \E t \in CollectionTasks : SyncCollections(t)
    \/ \E t \in CollectionTasks : SC_Load(t)
    \/ \E t \in CollectionTasks : SC_SaveFail(t)
    \/ \E t \in CollectionTasks : SC_Mark(t)
    \/ \E t \in CollectionTasks : SC_NoClient(t)
    \/ \E t \in CollectionTasks : SC_CheckRequest(t)
    \/ \E t \in CollectionTasks : SC_CheckReply(t)
    \/ \E t \in CollectionTasks : SC_CheckError(t)
    \/ \E t \in CollectionTasks : SC_MarkDuplicate(t)
    \/ \E t \in CollectionTasks : SC_Submit(t)
    \/ \E t \in CollectionTasks, o \in CollectionOutcomes : SC_Reply(t, o)
    \/ \E t \in CollectionTasks : SC_Persist(t)

SpecRuns == Init /\ [][NextRuns]_vars

\* Runs of the same kind side by side: every task may start either batch
\* caller, over one invoice and one receipt group.
NextOverlap ==
    \/ \E g \in Amounts : next_invoice_id <= 1 /\ CreateInvoice(g)
    \/ /\ ~agent_settings.send_fields
       /\ SaveAgentSettings(TRUE, Some("A"), agent_settings.invoice_number_start,
                            agent_settings.invoice_number_end,
                            agent_settings.invoice_number_current,
                            agent_settings.receipt_number_start,
                            agent_settings.receipt_number_end,
                            agent_settings.receipt_number_current)
    \/ \E t \in Tasks : SendAllPendingInvoices(t)
    \/ \E t \in Tasks : SI_Load(t)
    \/ \E t \in Tasks : SI_Settings(t)
    \/ \E t \in Tasks : SI_ValidateFail(t)
    \/ \E t \in Tasks : SI_MarkSending(t)
    \/ \E t \in Tasks : SI_Submit(t)
    \/ \E t \in Tasks : SI_NoClient(t)
    \/ \E t \in Tasks, r \in InvoiceReplies : SI_Reply(t, r)
    \/ \E t \in Tasks : SI_Persist(t)
    \/ \E t \in Tasks : client_balances = EmptyTable /\ SyncClientBalances(t)
    \/ \E t \in Tasks : SCB_Reply(t)
    \/ \E t \in Tasks : SCB_Store(t)
    \/ \E req \in RunRequests : next_uuid <= 1 /\ RecordCollectionGroup(req)
    \/ RCG_Insert
    \/ \E t \in Tasks : SyncCollections(t)
    \/ \E t \in Tasks : SC_Load(t)
    \/ \E t \in Tasks : SC_SaveFail(t)
    \/ \E t \in Tasks : SC_Mark(t)
    \/ \E t \in Tasks : SC_NoClient(t)
    \/ \E t \in Tasks : SC_CheckRequest(t)
    \/ \E t \in Tasks : SC_CheckReply(t)
    \/ \E t \in Tasks : SC_CheckError(t)
    \/ \E t \in Tasks : SC_MarkDuplicate(t)
    \/ \E t \in Tasks : SC_Submit(t)
    \/ \E t \in Tasks, o \in CollectionOutcomes : SC_Reply(t, o)
    \/ \E t \in Tasks : SC_Persist(t)

SpecOverlap == Init /\ [][NextOverlap]_vars

\* The two batch callers one after the other in a single task, over two
\* invoices and two receipt groups.
NextSweeps ==
    \/ \E g \in Amounts : CreateInvoice(g)
    \/ /\ ~agent_settings.send_fields
       /\ SaveAgentSettings(TRUE, Some("A"), agent_settings.invoice_number_start,
                            agent_settings.invoice_number_end,
                            agent_settings.invoice_number_current,
                            agent_settings.receipt_number_start,
                            agent_settings.receipt_number_end,
                            agent_settings.receipt_number_current)
    \/ \E t \in CollectionTasks : SendAllPendingInvoices(t)
    \/ \E t \in CollectionTasks : SI_Load(t)
    \/ \E t \in CollectionTasks : SI_Settings(t)
    \/ \E t \in CollectionTasks : SI_ValidateFail(t)
    \/ \E t \in CollectionTasks : SI_MarkSending(t)
    \/ \E t \in CollectionTasks : SI_Submit(t)
    \/ \E t \in CollectionTasks : SI_NoClient(t)
    \/ \E t \in CollectionTasks, r \in InvoiceReplies : SI_Reply(t, r)
    \/ \E t \in CollectionTasks : SI_Persist(t)
    \/ \E t \in CollectionTasks : client_balances = EmptyTable /\ SyncClientBalances(t)
    \/ \E t \in CollectionTasks : SCB_Reply(t)
    \/ \E t \in CollectionTasks : SCB_Store(t)
    \/ next_uuid <= 1 /\ RecordCollection(DocZ, 400000)
    \/ \E req \in RunRequests : RecordCollectionGroup(req)
    \/ RCG_Insert
    \/ \E t \in CollectionTasks : SyncCollections(t)
    \/ \E t \in CollectionTasks : SC_Load(t)
    \/ \E t \in CollectionTasks : SC_SaveFail(t)
    \/ \E t \in CollectionTasks : SC_Mark(t)
    \/ \E t \in CollectionTasks : SC_NoClient(t)
    \/ \E t \in CollectionTasks : SC_CheckRequest(t)
    \/ \E t \in CollectionTasks : SC_CheckReply(t)
    \/ \E t \in CollectionTasks : SC_CheckError(t)
    \/ \E t \in CollectionTasks : SC_MarkDuplicate(t)
    \/ \E t \in CollectionTasks : SC_Submit(t)
    \/ \E t \in CollectionTasks, o \in CollectionOutcomes : SC_Reply(t, o)
    \/ \E t \in CollectionTasks : SC_Persist(t)

SpecSweeps == Init /\ [][NextSweeps]_vars

---------------------------------------------------------------------------
\* The asynchronous commands with their use of the connection mutex made
\* explicit around each remote call: a block takes the mutex in one step and
\* runs to its closing brace, where the guard is dropped, in the next.

\* Variant: a guard that outlives its block.
GuardKept(t) == t

\* The holder of the mutex once the guard of task t went out of scope.
GuardDropped(t) == 0

\* let conn = db.conn.lock()...: task t at position from takes the mutex.
TakeLock(t, from, to) ==
    /\ pc[t] = from
    /\ LockFree
    /\ conn_lock' = t
    /\ pc' = [pc EXCEPT ![t] = to]
    /\ UNCHANGED <<agent_settings, inv_vars, ret, main_vars, loc, coll_vars, remote_vars, clock>>

\* What a locked block on the invoices table leaves alone.
lk_inv_frame == <<agent_settings, next_invoice_id, issued, last_issued, ret, main_vars,
                  coll_vars, remote_vars, clock>>
\* What a locked block on the collections table leaves alone.
lk_coll_frame == <<agent_settings, inv_vars, main_vars, next_uuid, client_balances,
                   remote_vars, clock>>
\* What a locked block that only reads leaves alone.
lk_read_frame == <<agent_settings, inv_vars, ret, main_vars, coll_vars, remote_vars, clock>>

\* send_invoice: "After validations, mark as sending", lock
SIK_LockMark(t) == loc[t].cfg_ok /\ TakeLock(t, "si_validate", "si_marking")

\* send_invoice: the UPDATE to 'sending' and the end of its block
SIK_Mark(t) ==
    /\ pc[t] = "si_marking"
    /\ invoices' = MarkSending(invoices, loc[t].id)
    /\ pc' = [pc EXCEPT ![t] = "si_request"]
    /\ conn_lock' = GuardDropped(t)
    /\ UNCHANGED <<lk_inv_frame, loc>>

\* send_invoice: the lock taken after the remote call
SIK_LockPersist(t) == TakeLock(t, "si_persist", "si_storing")

\* send_invoice: the UPDATE for the result, the SELECT of the row, return
SIK_Persist(t) ==
    /\ pc[t] = "si_storing"
    /\ invoices' = PersistInvoiceReply(invoices, loc[t].id, loc[t].reply)
    /\ ReturnFromSend(t)
    /\ conn_lock' = GuardDropped(t)
    /\ UNCHANGED lk_inv_frame

\* sync_all_data: the three downloads start
SyncAllData(t) ==
    /\ pc[t] = "idle"
    /\ pc' = [pc EXCEPT ![t] = "sad_wait"]
    /\ UNCHANGED <<store_vars, loc>>

\* sync_all_data: partners or articles cannot be fetched: Err
SAD_Error(t) ==
    /\ pc[t] = "sad_wait"
    /\ pc' = [pc EXCEPT ![t] = "idle"]
    /\ UNCHANGED <<store_vars, loc>>

\* sync_all_data: the downloads are in
SAD_Reply(t) ==
    /\ pc[t] = "sad_wait"
    /\ pc' = [pc EXCEPT ![t] = "sad_fetched"]
    /\ UNCHANGED <<store_vars, loc>>

\* sync_all_data: "Now do all database operations synchronously", lock
SAD_LockStore(t) == TakeLock(t, "sad_fetched", "sad_storing")

\* sync_all_data: partners, products and offers are replaced; end of the block
SAD_Store(t) ==
    /\ pc[t] = "sad_storing"
    /\ pc' = [pc EXCEPT ![t] = "sad_stored"]
    /\ conn_lock' = GuardDropped(t)
    /\ UNCHANGED <<lk_read_frame, loc>>

\* sync_all_data: the lock for the SELECT of the pending invoices
SAD_LockSelect(t) == TakeLock(t, "sad_stored", "sad_selecting")

\* sync_all_data: the SELECT, the end of its block, then the first send_invoice
SAD_Select(t) ==
    LET ids == {i \in DOMAIN invoices : invoices[i].status = "pending"} IN
    /\ pc[t] = "sad_selecting"
    /\ IF ids = {}
       THEN /\ pc' = [pc EXCEPT ![t] = "idle"]
            /\ UNCHANGED loc
       ELSE LET q == SortedSeq(ids) IN
            /\ pc' = [pc EXCEPT ![t] = "si_load"]
            /\ loc' = [loc EXCEPT ![t] =
                          [IdleLoc EXCEPT !.id = Head(q), !.queue = Tail(q)]]
    /\ conn_lock' = GuardDropped(t)
    /\ UNCHANGED lk_read_frame

\* sync_client_balances: the lock for the SELECT of the local partners
SCBK_LockRead(t) == TakeLock(t, "idle", "scb_reading")

\* sync_client_balances: the SELECT, the end of its block, the request leaves
SCBK_Read(t) ==
    /\ pc[t] = "scb_reading"
    /\ pc' = [pc EXCEPT ![t] = "scb_wait"]
    /\ conn_lock' = GuardDropped(t)
    /\ UNCHANGED <<lk_read_frame, loc>>

\* sync_client_balances: the lock taken after the reply
SCBK_LockStore(t) == TakeLock(t, "scb_store", "scb_storing")

\* sync_client_balances: DELETE, INSERTs, COMMIT, return
SCBK_Store(t) ==
    /\ pc[t] = "scb_storing"
    /\ client_balances' = loc[t].snapshot
    /\ pc' = [pc EXCEPT ![t] = "idle"]
    /\ loc' = [loc EXCEPT ![t] = IdleLoc]
    /\ conn_lock' = GuardDropped(t)
    /\ UNCHANGED <<agent_settings, inv_vars, ret, main_vars, collections, next_uuid,
                   remote_vars, clock>>

\* send_collection: the lock for the conditional UPDATE to 'sending'
SCK_LockMark(t) == TakeLock(t, "sc_mark", "sc_marking")

\* send_collection: the conditional UPDATE and the end of its block
SCK_Mark(t) ==
    LET g == loc[t].id
        hit == {i \in GroupRows(collections, g) : Movable(collections[i].status)}
    IN
    /\ pc[t] = "sc_marking"
    /\ IF hit = {}
       THEN /\ ReturnFromSendCollection(t, TRUE, "skipped")
            /\ UNCHANGED collections
       ELSE /\ collections' = [i \in DOMAIN collections |->
                                 IF i \in hit THEN [collections[i] EXCEPT !.status = "sending"]
                                 ELSE collections[i]]
            /\ pc' = [pc EXCEPT ![t] = "sc_client"]
            /\ UNCHANGED <<loc, ret>>
    /\ conn_lock' = GuardDropped(t)
    /\ UNCHANGED lk_coll_frame

\* send_collection: the lock of the already-paid branch
SCK_LockDuplicate(t) == TakeLock(t, "sc_dup", "sc_dup_storing")

\* send_collection: the UPDATE to 'synced' of the already-paid branch
SCK_MarkDuplicate(t) ==
    /\ pc[t] = "sc_dup_storing"
    /\ collections' = SetGroupStatus(collections, loc[t].id, "synced", TRUE, "null")
    /\ ReturnFromSendCollection(t, TRUE, "already_paid")
    /\ conn_lock' = GuardDropped(t)
    /\ UNCHANGED lk_coll_frame

\* send_collection: the lock taken in the arm of the reply
SCK_LockPersist(t) == TakeLock(t, "sc_persist", "sc_storing")

\* send_collection: the UPDATE for the reply, the end of the arm, return
SCK_Persist(t) ==
    /\ pc[t] = "sc_storing"
    /\ collections' = PersistCollectionReply(collections, loc[t].id, loc[t].reply)
    /\ IF GroupRows(collections, loc[t].id) = {}
       THEN ReturnFromSendCollection(t, FALSE, "not_found")
       ELSE ReturnFromSendCollection(t, TRUE, "none")
    /\ conn_lock' = GuardDropped(t)
    /\ UNCHANGED lk_coll_frame

\* One invoice and one receipt are entered; the commands that send invoices run
\* in one task and those of the collections in the other, block by block.
NextLocks ==
    \/ \E g \in Amounts : next_invoice_id <= 1 /\ LockFree /\ CreateInvoice(g)
    \/ /\ ~agent_settings.send_fields
       /\ LockFree
       /\ SaveAgentSettings(TRUE, Some("A"), agent_settings.invoice_number_start,
                            agent_settings.invoice_number_end,
                            agent_settings.invoice_number_current,
                            agent_settings.receipt_number_start,
                            agent_settings.receipt_number_end,
                            agent_settings.receipt_number_current)
    \/ next_uuid <= 1 /\ LockFree /\ RecordCollection(DocX, 1000000)
    \/ \E t \in InvoiceTasks, i \in InvoiceIds : LockFree /\ SendInvoice(t, i)
    \/ \E t \in InvoiceTasks : LockFree /\ SI_Load(t)
    \/ \E t \in InvoiceTasks : LockFree /\ SI_Settings(t)
    \/ \E t \in InvoiceTasks : LockFree /\ SI_ValidateFail(t)
    \/ \E t \in InvoiceTasks : SIK_LockMark(t)
    \/ \E t \in InvoiceTasks : SIK_Mark(t)
    \/ \E t \in InvoiceTasks : SI_Submit(t)
    \/ \E t \in InvoiceTasks : SI_NoClient(t)
    \/ \E t \in InvoiceTasks, r \in InvoiceReplies : SI_Reply(t, r)
    \/ \E t \in InvoiceTasks : SIK_LockPersist(t)
    \/ \E t \in InvoiceTasks : SIK_Persist(t)
    \/ \E t \in InvoiceTasks : SyncAllData(t)
    \/ \E t \in InvoiceTasks : SAD_Error(t)
    \/ \E t \in InvoiceTasks : SAD_Reply(t)
    \/ \E t \in InvoiceTasks : SAD_LockStore(t)
    \/ \E t \in InvoiceTasks : SAD_Store(t)
    \/ \E t \in InvoiceTasks : SAD_LockSelect(t)
    \/ \E t \in InvoiceTasks : SAD_Select(t)
    \/ \E t \in CollectionTasks : SCBK_LockRead(t)
    \/ \E t \in CollectionTasks : SCBK_Read(t)
    \/ \E t \in CollectionTasks : SCB_Reply(t)
    \/ \E t \in CollectionTasks : SCB_Error(t)
    \/ \E t \in CollectionTasks : SCBK_LockStore(t)
    \/ \E t \in CollectionTasks : SCBK_Store(t)
    \/ \E t \in CollectionTasks, g \in GroupIds : LockFree /\ SendCollection(t, g)
    \/ \E t \in CollectionTasks : SCK_LockMark(t)
    \/ \E t \in CollectionTasks : SCK_Mark(t)
    \/ \E t \in CollectionTasks : SC_NoClient(t)
    \/ \E t \in CollectionTasks : SC_CheckRequest(t)
    \/ \E t \in CollectionTasks : SC_CheckReply(t)
    \/ \E t \in CollectionTasks : SC_CheckError(t)
    \/ \E t \in CollectionTasks : SCK_LockDuplicate(t)
    \/ \E t \in CollectionTasks : SCK_MarkDuplicate(t)
    \/ \E t \in CollectionTasks : SC_Submit(t)
    \/ \E t \in CollectionTasks, o \in CollectionOutcomes : SC_Reply(t, o)
    \/ \E t \in CollectionTasks : SCK_LockPersist(t)
    \/ \E t \in CollectionTasks : SCK_Persist(t)

SpecLocks == Init /\ [][NextLocks]_vars

---------------------------------------------------------------------------
\* Invoices are created, sent one by one, collected and deleted.
NextDelete ==
    \/ \E g \in Amounts : CreateInvoice(g)
    \/ /\ ~agent_settings.send_fields
       /\ SaveAgentSettings(TRUE, Some("A"), agent_settings.invoice_number_start,
                            agent_settings.invoice_number_end,
                            agent_settings.invoice_number_current,
                            agent_settings.receipt_number_start,
                            agent_settings.receipt_number_end,
                            agent_settings.receipt_number_current)
    \/ \E i \in InvoiceIds : DeleteInvoice(i)
    \/ \E i \in InvoiceIds, a \in PaidAmounts : RecordCollectionFromInvoice(i, a)
    \/ \E t \in InvoiceTasks, i \in InvoiceIds : SendInvoice(t, i)
    \/ \E t \in InvoiceTasks : SI_Settings(t)
    \/ \E t \in InvoiceTasks : SI_ValidateFail(t)
    \/ \E t \in InvoiceTasks : SI_MarkSending(t)
    \/ \E t \in InvoiceTasks : SI_Submit(t)
    \/ \E t \in InvoiceTasks : SI_NoClient(t)
    \/ \E t \in InvoiceTasks, r \in InvoiceReplies : SI_Reply(t, r)
    \/ \E t \in InvoiceTasks : SI_Persist(t)

SpecDelete == Init /\ [][NextDelete]_vars

---------------------------------------------------------------------------
\* Every kind of reply to a submitted invoice, the document without a number
\* included.
AllInvoiceReplies == InvoiceReplies \cup {"unnumbered"}

NextReplies ==
    \/ \E g \in Amounts : CreateInvoice(g)
    \/ /\ ~agent_settings.send_fields
       /\ SaveAgentSettings(TRUE, Some("A"), agent_settings.invoice_number_start,
                            agent_settings.invoice_number_end,
                            agent_settings.invoice_number_current,
                            agent_settings.receipt_number_start,
                            agent_settings.receipt_number_end,
                            agent_settings.receipt_number_current)
    \/ \E t \in Tasks, i \in InvoiceIds : SendInvoice(t, i)
    \/ \E t \in Tasks : SI_Settings(t)
    \/ \E t \in Tasks : SI_ValidateFail(t)
    \/ \E t \in Tasks : SI_MarkSending(t)
    \/ \E t \in Tasks : SI_Submit(t)
    \/ \E t \in Tasks : SI_NoClient(t)
    \/ \E t \in Tasks, r \in AllInvoiceReplies : SI_Reply(t, r)
    \/ \E t \in Tasks : SI_Persist(t)

SpecReplies == Init /\ [][NextReplies]_vars

\* Receipts and every answer of the gateway: balances are pulled, a payment is
\* recorded, the receipt is sent and re-sent, and the gateway may also answer
\* without the result "ok" and without errors.
NextAnswers ==
    \/ SaveAgentSettings(TRUE, Some("A"), Some(DefaultNumberStart), Some(DefaultNumberEnd),
                         Some(DefaultNumberStart), Some(DefaultNumberStart),
                         Some(DefaultNumberEnd), Some(DefaultNumberStart))
    \/ \E d \in RemoteDocs : RemotePayment(d)
    \/ \E t \in CollectionTasks : SyncClientBalances(t)
    \/ \E t \in CollectionTasks : SCB_Reply(t)
    \/ \E t \in CollectionTasks : SCB_Error(t)
    \/ \E t \in CollectionTasks : SCB_Store(t)
    \/ \E req \in RunRequests : RecordCollectionGroup(req)
    \/ RCG_Insert
    \/ \E t \in CollectionTasks, g \in GroupIds : SendCollection(t, g)
    \/ \E t \in CollectionTasks : SyncCollections(t)
    \/ \E t \in CollectionTasks : SC_Load(t)
    \/ \E t \in CollectionTasks : SC_SaveFail(t)
    \/ \E t \in CollectionTasks : SC_Mark(t)
    \/ \E t \in CollectionTasks : SC_NoClient(t)
    \/ \E t \in CollectionTasks : SC_CheckRequest(t)
    \/ \E t \in CollectionTasks : SC_CheckReply(t)
    \/ \E t \in CollectionTasks : SC_CheckError(t)
    \/ \E t \in CollectionTasks : SC_MarkDuplicate(t)
    \/ \E t \in CollectionTasks : SC_Submit(t)
    \/ \E t \in CollectionTasks, o \in AllCollectionOutcomes : SC_Reply(t, o)
    \/ \E t \in CollectionTasks : SC_Persist(t)

SpecAnswers == Init /\ [][NextAnswers]_vars

---------------------------------------------------------------------------
\* Claims.

\* C1: of two concurrent send attempts of one invoice only the one that moved the
\* status from pending to sending submits it, so at no time are two submissions
\* of the same invoice on the wire.
C1_OneSubmissionInFlight == \A i \in InvoiceIds : Cardinality(InFlight(i)) <= 1

\* C2: Sent is terminal: no step changes the status of an invoice that is sent
\* (and still stored).
C2_SentIsTerminal ==
    [][\A i \in DOMAIN invoices :
          (invoices[i].status = "sent" /\ i \in DOMAIN invoices')
              => invoices'[i].status = "sent"]_vars

\* C8: no two invoices ever created carry the same number.
C8_NumberNeverReused ==
    \A a, b \in DOMAIN issued : a # b => issued[a] # issued[b]

\* C9: a successful create_invoice gets the number of the previous successful
\* create_invoice plus one (the settings not having been saved in between).
C9_NextNumberIsPreviousPlusOne ==
    [][(Len(issued') = Len(issued) + 1 /\ IsSome(last_issued))
          => issued'[Len(issued')] = Unwrap(last_issued) + 1]_vars

\* C3: over any sequence of send_collection attempts, lost acknowledgments and
\* retries, the gateway accepts at most one submission of a receipt group.
C3_AtMostOneAcceptance == \A g \in GroupIds : accepted[g] <= 1

\* C4: a receipt group whose payment the gateway never accepted is never in
\* status synced.
C4_SyncedOnlyIfAccepted ==
    \A g \in GroupIdsOf(collections) :
        GroupStatus(collections, g) = "synced" => accepted[g] >= 1

\* The remote rest of the documents a group's rows refer to.
RemoteRestOfGroup(rows, rest) ==
    SumFn(rest, {d \in DOMAIN rest :
                    \E r \in rows : r.serie_factura = d.serie /\ r.numar_factura = d.numar})

\* After the balance check send_collection marks every row of the group synced
\* and returns, without a submission.
MarkedSyncedUnsent(t) ==
    (pc[t] = "sc_dup" /\ pc'[t] # "sc_dup")
        => /\ \A i \in GroupRows(collections', loc[t].id) : collections'[i].status = "synced"
           /\ accepted' = accepted
           /\ pc'[t] \in {"idle", "sc_load"}

C6_SyncedGroupIsNoOp ==
    [][\A t \in CollectionTasks :
          (/\ pc[t] \in SendCollectionPcs
           /\ <<pc[t], loc[t]>> # <<pc'[t], loc'[t]>>
           /\ GroupRows(collections, loc[t].id) # {}
           /\ GroupStatus(collections, loc[t].id) = "synced")
              => /\ collections' = collections
                 /\ remote_rest' = remote_rest /\ accepted' = accepted
                 /\ pc'[t] \in {"sc_mark", "sc_load", "idle"}]_vars

\* send_collection has returned at the status write, every group being synced.
C6_Witness ==
    /\ ret = Outcome("send_collection", TRUE, "skipped")
    /\ collections # EmptyTable
    /\ \A g \in GroupIdsOf(collections) : GroupStatus(collections, g) = "synced"

\* C7: when the balance check fails, send_collection goes on to the submission,
\* and from there the request leaves.
C7_FailedCheckStillSubmits ==
    [][\A t \in CollectionTasks :
          /\ (pc[t] = "sc_check_wait" /\ pc'[t] # "sc_check_wait"
                  /\ loc'[t].reply = "check_failed")
                 => pc'[t] = "sc_request"
          /\ (pc[t] = "sc_request" /\ pc'[t] # "sc_request") => pc'[t] = "sc_wait"]_vars

\* A submission is on the wire after a failed balance check.
C7_Witness ==
    \E t \in CollectionTasks : pc[t] = "sc_wait" /\ loc[t].reply = "check_failed"

\* start <= current <= end + 1, for the values that are set
CounterInRange(start, current, end) ==
    /\ (IsSome(start) /\ IsSome(current)) => Unwrap(start) <= Unwrap(current)
    /\ (IsSome(current) /\ IsSome(end)) => Unwrap(current) <= Unwrap(end) + 1

\* No invoice number is handed out when the invoice counter is past its end,
\* and no receipt is recorded when the receipt counter is past its end.
AllocationFailsPastEnd ==
    /\ ReadInvoiceNumber(agent_settings).number > ReadInvoiceNumber(agent_settings).end
           => issued' = issued
    /\ (/\ IsSome(agent_settings.receipt_number_current)
        /\ IsSome(agent_settings.receipt_number_end)
        /\ Unwrap(agent_settings.receipt_number_current)
               > Unwrap(agent_settings.receipt_number_end))
           => DOMAIN collections' = DOMAIN collections

\* C10: for the invoice counter and for the receipt counter,
\* start <= current <= end + 1 in every reachable state, and an allocation
\* fails whenever current > end.
C10_CountersStayInRange ==
    /\ [](/\ CounterInRange(agent_settings.invoice_number_start,
                            agent_settings.invoice_number_current,
                            agent_settings.invoice_number_end)
          /\ CounterInRange(agent_settings.receipt_number_start,
                            agent_settings.receipt_number_current,
                            agent_settings.receipt_number_end))
    /\ [][AllocationFailsPastEnd]_vars

\* C11: number allocation is atomic under concurrency.  The value a caller of
\* create_invoice or of generate_receipt_number has read from the counter is
\* still the counter's value until that caller has advanced it, so no two
\* callers draw the same value: the invoices created carry different numbers
\* and so do the receipts numbered from the counter.
C11_AllocationIsAtomic ==
    /\ \A t \in Tasks :
          /\ pc[t] \in {"ci_insert", "ci_bump"}
                => ReadInvoiceNumber(agent_settings).number = loc[t].number.n
          /\ (pc[t] = "rc_bump" /\ loc[t].number.kind = "counter")
                => agent_settings.receipt_number_current = Some(loc[t].number.n)
    /\ \A a, b \in DOMAIN issued : a # b => issued[a] # issued[b]
    /\ \A i, j \in DOMAIN collections :
          (/\ collections[i].receipt_group_id # collections[j].receipt_group_id
           /\ collections[i].receipt_number.kind = "counter")
              => collections[i].receipt_number.n # collections[j].receipt_number.n

\* Two invoices and two receipts have been numbered from the counters, and a
\* caller holds the mutex between its read and its write of a counter.
C11_Witness ==
    /\ Len(issued) = 2
    /\ \E i, j \in DOMAIN collections :
          i # j /\ collections[i].receipt_number.kind = "counter"
                /\ collections[j].receipt_number.kind = "counter"
    /\ \E t \in Tasks : conn_lock = t /\ pc[t] = "rc_bump"

\* The invoice counter is past its end: current > end, with the values a NULL
\* column is read as.
InvoiceCounterExhausted ==
    /\ agent_settings.present
    /\ Coalesce(agent_settings.invoice_number_current, DefaultNumberStart)
           > Coalesce(agent_settings.invoice_number_end, DefaultNumberEnd)

\* The number n lies in the range the settings configure.
InConfiguredRange(n) ==
    agent_settings.present
        => /\ IsSome(agent_settings.invoice_number_start)
                  => n >= Unwrap(agent_settings.invoice_number_start)
           /\ n <= Coalesce(agent_settings.invoice_number_end, DefaultNumberEnd)

\* C12: when the invoice counter is exhausted, create_invoice returns the range
\* error and persists nothing (no invoice row, which stands for the invoice with
\* its item rows, and no change of the counter); and every number create_invoice
\* issues lies in the range configured when it is issued.
C12_ExhaustedCounterIssuesNothing ==
    [][/\ (InvoiceCounterExhausted /\ ret'.op = "create_invoice")
              => /\ ret' = Outcome("create_invoice", FALSE, "range")
                 /\ invoices' = invoices
                 /\ agent_settings' = agent_settings
                 /\ issued' = issued
       /\ Len(issued') = Len(issued) + 1 => InConfiguredRange(issued'[Len(issued')])]_vars

\* create_invoice has just refused on an exhausted counter from which a number
\* had been issued before.
C12_Witness ==
    /\ ret = Outcome("create_invoice", FALSE, "range")
    /\ InvoiceCounterExhausted
    /\ Len(issued) >= 1

\* C13: any two distinct receipt groups carry different receipt numbers, whether
\* the number came from the receipt counter or from the clock.
C13_ReceiptNumbersDistinct ==
    \A i, j \in DOMAIN collections :
        collections[i].receipt_group_id # collections[j].receipt_group_id
            => collections[i].receipt_number # collections[j].receipt_number

\* C14: the remaining balance reported for an invoice is never negative: not in
\* a line of get_client_balances, not in get_invoice_remaining_for_collection,
\* not in the remaining amount record_collection_from_invoice validates against.
C14_RemainingNeverNegative ==
    /\ \A b \in GetClientBalances(agent_settings, invoices, collections, client_balances) :
          b.rest >= 0
    /\ \A i \in DOMAIN invoices :
          /\ GetInvoiceRemainingForCollection(invoices, collections, i) >= 0
          /\ RemainingOfInvoice(invoices, collections, i) >= 0

\* More has been collected on an invoice than its total_amount, and more is
\* recorded against a mirrored document than its rest.
C14_Witness ==
    /\ \E i \in DOMAIN invoices :
          TotalCollectedOfInvoice(collections, invoices[i].invoice_number)
              > invoices[i].total_amount
    /\ \E d \in DOMAIN client_balances :
          TotalCollected(collections, d) > client_balances[d]

\* The reference a collection row carries.
RefOfRow(row) == Ref(row.serie_factura, row.numar_factura, row.cod_document)

\* The amounts of the rows in status pending, sending or synced that refer to
\* the document d.
CollectedAgainst(d) ==
    LET counted == {i \in DOMAIN collections :
                       /\ collections[i].status \in {"pending", "sending", "synced"}
                       /\ RefOfRow(collections[i]) = d}
    IN SumFn([i \in DOMAIN collections |-> collections[i].valoare], counted)

\* The rest get_client_balances reports for the document d; a document it does
\* not list has nothing left.
ReportedRest(d) ==
    LET lines == {b \in GetClientBalances(agent_settings, invoices, collections,
                                          client_balances) : b.ref = d}
    IN IF lines = {} THEN 0 ELSE (CHOOSE b \in lines : TRUE).rest

\* C15: for a document with a balance line pulled from the remote ledger, the
\* remaining balance is max(0, rest of that line less the amounts of the local
\* collections in status pending, sending or synced that refer to exactly that
\* document); failed collections and collections of other documents do not
\* reduce it.
C15_RemainingIsRestLessCollected ==
    \A d \in DOMAIN client_balances :
        ReportedRest(d) =
            IF client_balances[d] - CollectedAgainst(d) > 0
            THEN client_balances[d] - CollectedAgainst(d)
            ELSE 0

\* A failed collection refers to a document with a balance line, whose whole
\* rest is reported, and nothing is collected against another document that
\* has a balance line.
C15_Witness ==
    /\ \E i \in DOMAIN collections :
          /\ collections[i].status = "failed"
          /\ RefOfRow(collections[i]) \in DOMAIN client_balances
          /\ ReportedRest(RefOfRow(collections[i]))
                 = client_balances[RefOfRow(collections[i])]
    /\ \E d \in DOMAIN client_balances : CollectedAgainst(d) = 0

\* C16: the amounts of the collections in status pending, sending or synced
\* against one document never exceed that document's rest in the remote ledger
\* by more than the rounding epsilon.
C16_CollectedWithinRemoteRest ==
    \A d \in DOMAIN remote_rest :
        CollectedAgainst(d) <= remote_rest[d] + EPSILON_ALLOCATION

\* C17: no invoice is double-booked: at most one collection in status pending or
\* sending refers to a given invoice, by whichever command it was recorded and
\* whatever the series of the reference is.
C17_NoDoubleBooking ==
    \A i, j \in DOMAIN collections :
        (/\ collections[i].status \in {"pending", "sending"}
         /\ collections[j].status \in {"pending", "sending"}
         /\ RefOfRow(collections[i]) = RefOfRow(collections[j]))
            => i = j

\* The allocation a asks for more than what is left of its invoice, by more
\* than the epsilon.
OverAllocates(a) ==
    /\ a.valoare > 0
    /\ \E b \in GetClientBalances(agent_settings, invoices, collections, client_balances) :
          b.ref = a.ref
    /\ a.valoare - ReportedRest(a.ref) > EPSILON_ALLOCATION

\* The allocation a passes no check of record_collection_group.
FailsValidation(a) ==
    \/ a.valoare <= 0
    \/ ReportedRest(a.ref) = 0
    \/ OverAllocates(a)

\* The outcome that names the invoice of the allocation a and what is left of it.
NamesOverAllocation(a) ==
    OutcomeAbout("record_collection_group", FALSE, "exceeds_balance",
                 About(a.ref.serie, a.ref.numar), ReportedRest(a.ref))

\* The batch is rejected and nothing of it is stored: no row, no step towards
\* the inserts, no receipt number drawn.
BatchRejected ==
    /\ ret'.op = "record_collection_group" /\ ~ret'.ok
    /\ main_pc' = "idle"
    /\ collections' = collections
    /\ agent_settings' = agent_settings

\* C18 as stated: when an allocation of the batch over-allocates, the batch is
\* rejected, no row of it is inserted, and the error names an over-allocated
\* invoice of the batch and its remaining balance.
C18_OverAllocationIsNamed ==
    [][\A req \in GroupRequests :
          (RecordCollectionGroup(req) /\ \E k \in DOMAIN req : OverAllocates(req[k]))
              => /\ BatchRejected
                 /\ \E k \in DOMAIN req :
                       OverAllocates(req[k]) /\ ret' = NamesOverAllocation(req[k])]_vars

\* C18 amended: when an allocation of the batch over-allocates, the batch is
\* rejected and no row of it is inserted; the error is that of the first
\* allocation, in the order of the list, that fails a check, and when that one
\* over-allocates the error names its invoice and its remaining balance.
C18_OverAllocationRejectsBatch ==
    [][\A req \in GroupRequests :
          (RecordCollectionGroup(req) /\ \E k \in DOMAIN req : OverAllocates(req[k]))
              => /\ BatchRejected
                 /\ \A k \in DOMAIN req :
                       (/\ OverAllocates(req[k])
                        /\ \A j \in 1..(k - 1) : ~FailsValidation(req[j]))
                           => ret' = NamesOverAllocation(req[k])]_vars

\* record_collection_group has just refused a batch for an over-allocation,
\* naming the invoice and the balance left, and the table holds no row.
C18_Witness ==
    /\ ret.op = "record_collection_group" /\ ret.err = "exceeds_balance"
    /\ ret.about = About(DocZ.serie, DocZ.numar) /\ ret.rest = client_balances[DocZ]
    /\ DocZ \in DOMAIN client_balances
    /\ collections = EmptyTable

\* C19: record_collection_group with an empty allocation list, or with an
\* allocation whose amount is zero or less, is rejected and leaves the
\* collections table and the receipt counter as they were.
C19_EmptyOrNonPositiveIsRejected ==
    [][\A req \in GroupRequests :
          (/\ RecordCollectionGroup(req)
           /\ (req = <<>> \/ \E k \in DOMAIN req : req[k].valoare <= 0))
              => /\ ret'.op = "record_collection_group" /\ ~ret'.ok
                 /\ main_pc' = "idle"
                 /\ collections' = collections
                 /\ agent_settings'.receipt_number_current
                        = agent_settings.receipt_number_current]_vars

\* record_collection_group has just refused a batch for an amount that is not
\* positive, the allocation before it having a balance, with a receipt counter
\* to draw from.
C19_Witness ==
    /\ ret = Outcome("record_collection_group", FALSE, "not_positive")
    /\ DocX \in DOMAIN client_balances
    /\ IsSome(agent_settings.receipt_number_current)

\* The rows a step adds to the collections table.
NewRows == DOMAIN collections' \ DOMAIN collections

\* C20: a successful record_collection_group with n allocations inserts exactly
\* n rows, one per allocation, all pending, all with one receipt_group_id that no
\* row had before and with one receipt number, and draws one number: the receipt
\* counter, when it is set, gives its value and advances by one (when it is not
\* set the number is the clock's and the settings stay as they are).  When the
\* insert of a row fails, no row of the batch is left.  No row that existed is
\* altered.
C20_GroupInsertIsAtomic ==
    [][(main_pc = "rcg_insert" /\ main_pc' = "idle")
          => /\ \A i \in DOMAIN collections :
                   i \in DOMAIN collections' /\ collections'[i] = collections[i]
             /\ ret'.op = "record_collection_group"
             /\ IF ret'.ok
                THEN /\ Cardinality(NewRows) = Len(main_req)
                     /\ \A k \in DOMAIN main_req : \E i \in NewRows :
                           /\ RefOfRow(collections'[i]) = main_req[k].ref
                           /\ collections'[i].valoare = main_req[k].valoare
                     /\ \A i \in NewRows : collections'[i].status = "pending"
                     /\ \A i, j \in NewRows :
                           /\ collections'[i].receipt_group_id
                                  = collections'[j].receipt_group_id
                           /\ collections'[i].receipt_number
                                  = collections'[j].receipt_number
                     /\ \A i \in NewRows :
                           collections'[i].receipt_group_id \notin GroupIdsOf(collections)
                     /\ IF IsSome(agent_settings.receipt_number_current)
                        THEN /\ agent_settings' =
                                    [agent_settings EXCEPT !.receipt_number_current =
                                        Some(Unwrap(@) + 1)]
                             /\ \A i \in NewRows :
                                   collections'[i].receipt_number =
                                       [kind |-> "counter",
                                        n |-> Unwrap(agent_settings.receipt_number_current)]
                        ELSE /\ agent_settings' = agent_settings
                             /\ \A i \in NewRows :
                                   collections'[i].receipt_number.kind = "clock"
                ELSE NewRows = {}]_vars

\* A batch of two allocations has just been recorded: two pending rows of one
\* group, numbered from the receipt counter.
C20_Witness ==
    /\ ret = Outcome("record_collection_group", TRUE, "none")
    /\ Cardinality(DOMAIN collections) = 2
    /\ \E i \in DOMAIN collections :
          /\ collections[i].receipt_number.kind = "counter"
          /\ agent_settings.receipt_number_current
                 = Some(collections[i].receipt_number.n + 1)

\* The errors by which a record_* command refuses a payment: over-allocation,
\* invoice collected in full, collection in progress for the invoice.
ValidationErrors ==
    {"exceeds_balance", "exceeds_total", "exceeds_remaining", "fully_collected",
     "in_progress"}

\* C21: a validation rejection has no persisted side effect: when
\* record_collection, record_collection_group or record_collection_from_invoice
\* returns one of the validation errors, the receipt counter's current value is
\* what it was before the call.
C21_RejectionKeepsReceiptCounter ==
    [][(/\ ret'.op \in {"record_collection", "record_collection_group",
                        "record_collection_from_invoice"}
        /\ ~ret'.ok
        /\ ret'.err \in ValidationErrors)
           => agent_settings'.receipt_number_current
                  = agent_settings.receipt_number_current]_vars

\* C22: the member set of a receipt group is immutable after creation: over any
\* step, a group that has members keeps exactly them or loses them all.
C22_GroupMembersImmutable ==
    [][\A g \in GroupIdsOf(collections) :
          \/ GroupRows(collections', g) = GroupRows(collections, g)
          \/ GroupRows(collections', g) = {}]_vars

\* C23: record_collection_from_invoice is the group algorithm with one
\* allocation: in every store state, for every invoice and amount, it accepts
\* exactly when record_collection_group accepts the single allocation of that
\* amount to that invoice.
C23_FromInvoiceIsGroupOfOne ==
    \A i \in DOMAIN invoices, a \in PaidAmounts :
        FromInvoiceAccepts(agent_settings, invoices, collections, clock, i, a)
            <=> GroupAccepts(agent_settings, invoices, collections, client_balances, clock,
                             <<Allocation(InvoiceRef(agent_settings,
                                                     invoices[i].invoice_number), a)>>)

\* C24: cancel_invoice_sending on an invoice that is not in status sending
\* returns an error and leaves the invoice's status and error message as they
\* were; on an invoice in status sending it sets the status to pending and the
\* error message to the (non-empty) cancelled-by-the-operator text.
C24_CancelOnlyFromSending ==
    [][\A i \in DOMAIN invoices :
          CancelInvoiceSending(i)
              => IF invoices[i].status = "sending"
                 THEN /\ ret' = Outcome("cancel_invoice_sending", TRUE, "none")
                      /\ invoices'[i].status = "pending"
                      /\ invoices'[i].error_message = "cancelled"
                 ELSE /\ ret'.op = "cancel_invoice_sending" /\ ~ret'.ok
                      /\ invoices'[i].status = invoices[i].status
                      /\ invoices'[i].error_message = invoices[i].error_message]_vars

\* A send has just been cancelled: the invoice is pending with the cancellation
\* text.
C24_Witness ==
    /\ ret = Outcome("cancel_invoice_sending", TRUE, "none")
    /\ \E i \in DOMAIN invoices :
          invoices[i].status = "pending" /\ invoices[i].error_message = "cancelled"

\* C25: under every interleaving of cancel_invoice_sending with the completion
\* of a send_invoice in flight for the same invoice, the write of a cancellation
\* never finds the invoice in status sent: a cancellation changes no invoice
\* that has reached sent.
C25_CancelNeverRevertsSent ==
    [][(main_pc \in {"cis_check", "cis_update"} /\ main_pc' # main_pc)
          => \A i \in DOMAIN invoices :
                invoices[i].status = "sent" => invoices'[i] = invoices[i]]_vars

\* A cancellation holds the mutex, about to check an invoice that has reached
\* sent, while the send of another invoice waits to store its reply.
C25_Witness ==
    /\ main_pc = "cis_check"
    /\ Head(main_req) \in DOMAIN invoices
    /\ invoices[Head(main_req)].status = "sent"
    /\ \E t \in Tasks : pc[t] = "si_persist"

\* The records a batch caller has taken on when its first step is done.
RunOfInvoices(t) ==
    IF pc'[t] = "si_load"
    THEN {loc'[t].id} \cup {loc'[t].queue[k] : k \in DOMAIN loc'[t].queue}
    ELSE {}
RunOfCollections(t) ==
    IF pc'[t] = "sc_load"
    THEN {loc'[t].id} \cup {loc'[t].queue[k] : k \in DOMAIN loc'[t].queue}
    ELSE {}

\* An invoice, or a receipt group, that waits with the message of an earlier attempt.
InvoiceWaitsWithError(tbl, i) ==
    tbl[i].status = "pending" /\ tbl[i].error_message # "null"
GroupWaitsWithError(tbl, g) ==
    \A i \in GroupRows(tbl, g) :
        tbl[i].status = "pending" /\ tbl[i].error_message # "null"

\* C26: a send that ends in a network error or without a usable reply leaves
\* the invoice, and every row of the receipt group, in status pending with an
\* error message; send_all_pending_invoices and sync_collections take on every
\* record that waits so; and a send of theirs that the gateway answers with
\* success leaves the invoice sent with sent_at set, every row of the group
\* synced with synced_at set.
C26_TransientFailureIsRetried ==
    [][/\ \A t \in Tasks :
            (SI_Persist(t) /\ loc[t].reply \in {"error", "nodoc"})
               => InvoiceWaitsWithError(invoices', loc[t].id)
       /\ \A t \in Tasks :
            (SC_Persist(t) /\ loc[t].reply = "error")
               => GroupWaitsWithError(collections', loc[t].id)
       /\ \A t \in Tasks :
            SendAllPendingInvoices(t)
               => \A i \in DOMAIN invoices :
                     InvoiceWaitsWithError(invoices, i) => i \in RunOfInvoices(t)
       /\ \A t \in Tasks :
            SyncCollections(t)
               => \A g \in GroupIdsOf(collections) :
                     GroupWaitsWithError(collections, g) => g \in RunOfCollections(t)
       /\ \A t \in Tasks :
            (SI_Persist(t) /\ loc[t].reply = "doc")
               => /\ invoices'[loc[t].id].status = "sent"
                  /\ invoices'[loc[t].id].sent_at
       /\ \A t \in Tasks :
            (SC_Persist(t) /\ loc[t].reply = "ok")
               => \A i \in GroupRows(collections', loc[t].id) :
                     /\ collections'[i].status = "synced"
                     /\ collections'[i].synced_at]_vars

\* A second run is about to store the gateway's success for an invoice and for
\* a receipt group of two rows that both carry the message of a network error.
C26_Witness ==
    /\ \E t \in Tasks :
          /\ pc[t] = "si_persist" /\ loc[t].reply = "doc"
          /\ invoices[loc[t].id].error_message = "offline"
    /\ \E t \in Tasks :
          /\ pc[t] = "sc_persist" /\ loc[t].reply = "ok"
          /\ Cardinality(GroupRows(collections, loc[t].id)) = 2
          /\ \A i \in GroupRows(collections, loc[t].id) :
                collections[i].error_message = "offline"

\* C27: a submission that the remote system rejects (a reply without the
\* document, a reply with an error list) leaves the invoice, and every row of
\* the receipt group, in status pending with the error recorded, never failed.
C27_RejectionLeavesPending ==
    [][/\ \A t \in Tasks :
            (SI_Persist(t) /\ loc[t].reply = "nodoc")
               => InvoiceWaitsWithError(invoices', loc[t].id)
       /\ \A t \in Tasks :
            (SC_Persist(t) /\ loc[t].reply = "rejected")
               => GroupWaitsWithError(collections', loc[t].id)]_vars

\* A task is inside a run of sync_collections, of send_all_pending_invoices.
InCollectionRun(t) == pc[t] \in SendCollectionPcs
InInvoiceRun(t) ==
    pc[t] \in {"si_load", "si_settings", "si_validate", "si_request", "si_wait", "si_persist"}

\* C28: at most one run of a kind is active at a time: sync_collections called
\* while another sync_collections is in progress takes on no receipt group, and
\* send_all_pending_invoices called while another one is in progress takes on
\* no invoice.
C28_SecondRunDoesNothing ==
    [][/\ \A t \in Tasks :
            (SyncCollections(t) /\ \E u \in Tasks \ {t} : InCollectionRun(u))
               => RunOfCollections(t) = {}
       /\ \A t \in Tasks :
            (SendAllPendingInvoices(t) /\ \E u \in Tasks \ {t} : InInvoiceRun(u))
               => RunOfInvoices(t) = {}]_vars

\* C29: a run of sync_collections takes on every receipt group whose status
\* is pending or failed when the run starts.
C29_RunTakesPendingAndFailed ==
    [][\A t \in Tasks :
          SyncCollections(t)
             => \A g \in GroupIdsOf(collections) :
                   GroupStatus(collections, g) \in {"pending", "failed"}
                      => g \in RunOfCollections(t)]_vars

\* The records of a run that its loop has not reached yet.
Waiting(l) == {l.queue[k] : k \in DOMAIN l.queue}

\* A call of send_invoice, of send_collection, ends in a failure.
InvoiceSendFails(t) ==
    \/ SI_ValidateFail(t)
    \/ SI_Persist(t) /\ loc[t].reply # "doc"
CollectionSendFails(t) ==
    \/ SC_SaveFail(t)
    \/ SC_NoClient(t)
    \/ SC_Persist(t) /\ loc[t].reply # "ok"

\* C30: within a run, a failure while sending one invoice or one receipt group
\* (validation, network, rejection) does not stop the run: the run goes on with
\* the next record and keeps every record it has not reached; and no step of a
\* run drops a record that the run has not reached.
C30_FailureDoesNotStopRun ==
    [][\A t \in Tasks :
          /\ InvoiceSendFails(t) => RunOfInvoices(t) = Waiting(loc[t])
          /\ CollectionSendFails(t) => RunOfCollections(t) = Waiting(loc[t])
          /\ Waiting(loc[t]) # {}
                => /\ pc'[t] # "idle"
                   /\ Waiting(loc[t]) \subseteq Waiting(loc'[t]) \cup {loc'[t].id}]_vars

\* A run of sync_collections is at its second receipt group after the first
\* was left with a network error, and a run of send_all_pending_invoices has
\* sent the second invoice after the first was left with an error.
C30_Witness ==
    /\ \E t \in Tasks :
          /\ pc[t] = "sc_load" /\ loc[t].id = 1 /\ loc[t].queue = <<>>
          /\ GroupRows(collections, 2) # {}
          /\ GroupWaitsWithError(collections, 2)
    /\ {1, 2} \subseteq DOMAIN invoices
    /\ InvoiceWaitsWithError(invoices, 1)
    /\ invoices[2].status = "sent"

\* Positions of a task at which a call to the remote service is in flight.
RemoteCallPcs == {"si_wait", "sad_wait", "scb_wait", "sc_check_wait", "sc_wait"}

\* C31: the connection mutex is never held by a task while a call of that
\* task to the remote service is in flight (send_invoice, send_collection,
\* sync_client_balances, sync_all_data).
C31_NoLockAcrossRemoteCall ==
    \A t \in Tasks : pc[t] \in RemoteCallPcs => conn_lock # t

\* A call of one task is in flight, after a block of that task that held the
\* mutex, while the other task holds the mutex inside a block of its own.
C31_Witness ==
    \E t \in Tasks, u \in Tasks :
        /\ pc[t] = "si_wait"
        /\ invoices[loc[t].id].status = "sending"
        /\ conn_lock = u
        /\ pc[u] = "sc_storing"

\* C32: an invoice that has reached status sent is never removed from the
\* store: over any step, delete_invoice included, its row is still there.
C32_SentInvoiceIsKept ==
    [][\A i \in DOMAIN invoices :
          invoices[i].status = "sent" => i \in DOMAIN invoices']_vars

\* The balances offer a provisional line for the local invoice i.
ProvisionalOffered(i) ==
    \E b \in GetClientBalances(agent_settings, invoices, collections, client_balances) :
        /\ b.ref = InvoiceRef(agent_settings, invoices[i].invoice_number)
        /\ b.ref \notin DOMAIN client_balances

\* A mirrored line carries the number of the local invoice i.
HasRemoteLine(i) ==
    \E d \in DOMAIN client_balances : d.numar = Some(invoices[i].invoice_number)

\* C33: a provisional balance line is offered only for a local invoice that has
\* no remote balance line and is not yet sent; for a sent invoice without a
\* remote line no collection against its local total is accepted.
C33_ProvisionalOnlyBeforeSent ==
    \A i \in DOMAIN invoices :
        /\ ProvisionalOffered(i) => ~HasRemoteLine(i) /\ invoices[i].status # "sent"
        /\ (invoices[i].status = "sent" /\ ~HasRemoteLine(i))
              => \A a \in PaidAmounts :
                    ~FromInvoiceAccepts(agent_settings, invoices, collections, clock, i, a)

\* The remote documents that the rows of a receipt group reference.
ReferencedDocs(rows) ==
    {d \in DOMAIN remote_rest :
        \E r \in rows : d.serie = r.serie_factura /\ d.numar = r.numar_factura}

\* The sum of what is left to pay on them.
RemainingOfGroup(rows) == SumFn(remote_rest, ReferencedDocs(rows))

\* C34: a receipt group is submitted to the gateway only if, when the request
\* leaves, the sum of its amounts does not exceed the sum of the remaining
\* balances of the documents it references; a resubmission is held to the
\* balances of its own time.
C34_SubmittedWithinRemaining ==
    [][\A t \in Tasks :
          SC_Submit(t) => loc[t].total <= RemainingOfGroup(loc[t].rows)]_vars

\* C35: the status of an invoice becomes sent only from sending: a send that
\* was cancelled while its remote call was in flight (status back to pending)
\* does not change the status when the call completes.
C35_SentOnlyFromSending ==
    [][\A i \in DOMAIN invoices :
          (i \in DOMAIN invoices' /\ invoices'[i].status = "sent"
              /\ invoices[i].status # "sent")
             => invoices[i].status = "sending"]_vars

\* C36: an invoice is set to sent only when the reply carries an imported
\* document with a number; a successful reply with no document, or with a
\* document that has no number, leaves the invoice pending with its error set.
C36_SentNeedsDocumentNumber ==
    [][/\ \A i \in DOMAIN invoices :
            (invoices'[i].status = "sent" /\ invoices[i].status # "sent")
               => \E t \in Tasks :
                     /\ SI_Persist(t)
                     /\ loc[t].id = i
                     /\ loc[t].reply = "doc"
       /\ \A t \in Tasks :
            (SI_Persist(t) /\ loc[t].reply \in {"nodoc", "unnumbered"})
               => InvoiceWaitsWithError(invoices', loc[t].id)]_vars

\* One invoice was answered with a document that has no number, the other with
\* no document at all.
C36_Witness ==
    \E i, j \in DOMAIN invoices :
        /\ invoices[i].status = "pending" /\ invoices[i].error_message = "not_created"
        /\ invoices[j].status = "pending" /\ invoices[j].error_message = "no_document"

\* A call of send_invoice for invoice i is between its write of sending and
\* its return.
SendUnderWay(i) ==
    \E t \in Tasks : loc[t].id = i /\ pc[t] \in {"si_request", "si_wait", "si_persist"}

CollectionSendUnderWay(g) ==
    \E t \in Tasks :
        /\ loc[t].id = g
        /\ pc[t] \in {"sc_client", "sc_check_wait", "sc_dup", "sc_request", "sc_wait",
                      "sc_persist"}

\* C38: no receipt group stays in sending after its send_collection call has
\* returned: a row is in sending only while a call that wrote it is on its way
\* to the write of the outcome, whichever way the call goes (a client that
\* cannot be built included).
C38_NoGroupLeftSending ==
    \A i \in DOMAIN collections :
        collections[i].status = "sending"
           => CollectionSendUnderWay(collections[i].receipt_group_id)

C40_SyncedOnlyOnResultOk ==
    [][\A t \in Tasks :
          SC_Persist(t) /\ GatewayAnswered(loc[t].reply) /\ ~ResultOk(loc[t].reply)
             => \A i \in GroupRows(collections', loc[t].id) :
                    collections'[i].status # "synced"]_vars

====
